---------------------------- MODULE Spec2Model ----------------------------
(***************************************************************************)
(* Model of the task router of src/agent/enhanced_orchestrator.py:         *)
(* EXPLICIT_HANDOFF annotation parsing, specialist tag extraction, Jaccard *)
(* agent matching and routing suggestions (Spec); of the response          *)
(* normalizer and transport wrappers of src/agent/mcp_agent_mail_client.py *)
(* with Orchestrator.delegate_task (ClientSpec); and of the message        *)
(* envelopes of src/agent/handoff_protocol.py (ProtocolSpec).              *)
(*                                                                         *)
(* Representation of Python values.                                        *)
(*   str    [t |-> "str",   v |-> <<"a","b">>]  a tuple of 1-character     *)
(*                                              strings                    *)
(*   int    [t |-> "int",   v |-> 5]                                       *)
(*   float  [t |-> "float", v |-> <<"1","e","5">>]  the numeral as written *)
(*   bool   [t |-> "bool",  v |-> TRUE]                                    *)
(*   None   [t |-> "none"]                                                 *)
(*   list   [t |-> "list",  v |-> << value, ... >>]                        *)
(*   dict   [t |-> "dict",  v |-> << <<key, value>>, ... >>]  the pairs in *)
(*          the order written; a lookup takes the last pair of a key       *)
(* A Python set is a TLA+ set of such values.  The outcome of a call is    *)
(* Return(value) or Raise(exception name).                                 *)
(***************************************************************************)
EXTENDS Integers, Sequences, FiniteSets, TLC

Str(cs) == [t |-> "str", v |-> cs]
IntV(n) == [t |-> "int", v |-> n]
FloatV(cs) == [t |-> "float", v |-> cs]
BoolV(b) == [t |-> "bool", v |-> b]
None == [t |-> "none"]
ListV(xs) == [t |-> "list", v |-> xs]
DictV(ps) == [t |-> "dict", v |-> ps]

Return(x) == [kind |-> "return", value |-> x]
Raise(e) == [kind |-> "raise", exc |-> e]
Idle == [kind |-> "idle"]

Range(f) == {f[i] : i \in DOMAIN f}

(***************************************************************************)
(* str operations used by the router, on tuples of characters.            *)
(***************************************************************************)
UpperLetters ==
  <<"A","B","C","D","E","F","G","H","I","J","K","L","M",
    "N","O","P","Q","R","S","T","U","V","W","X","Y","Z">>

LowerLetters ==
  <<"a","b","c","d","e","f","g","h","i","j","k","l","m",
    "n","o","p","q","r","s","t","u","v","w","x","y","z">>

\* str.lower() of one character (ASCII letters; other characters are unchanged)
LowerChar(c) ==
  IF \E i \in 1..26 : UpperLetters[i] = c
    THEN LowerLetters[CHOOSE i \in 1..26 : UpperLetters[i] = c]
    ELSE c

\* s.lower() leaving the text as it is
LowerNot(s) == s

\* s.lower()
Lower(s) == [i \in 1..Len(s) |-> LowerChar(s[i])]

\* s[i:].startswith(sub), i counted from 1
StartsAt(s, i, sub) ==
  /\ i + Len(sub) - 1 <= Len(s)
  /\ \A j \in 1..Len(sub) : s[i + j - 1] = sub[j]

\* Contains testing the start of s only: s.startswith(sub)
ContainsAtStart(s, sub) == StartsAt(s, 1, sub)

\* sub in s
Contains(s, sub) == \E i \in 1..(Len(s) - Len(sub) + 1) : StartsAt(s, i, sub)

RECURSIVE ReplaceFrom(_, _, _)
\* s[i:].replace(old, ''), old non-empty: the leftmost occurrence is dropped,
\* then the occurrences after it
ReplaceFrom(s, i, old) ==
  LET occ == {p \in i..(Len(s) - Len(old) + 1) : StartsAt(s, p, old)}
  IN IF occ = {} THEN SubSeq(s, i, Len(s))
     ELSE LET p == CHOOSE q \in occ : \A r \in occ : q <= r
          IN SubSeq(s, i, p - 1) \o ReplaceFrom(s, p + Len(old), old)

\* s.replace(old, '')
Remove(s, old) == ReplaceFrom(s, 1, old)

\* s.strip(chars): drop the leading and trailing characters that are in chars
StripChars(s, chars) ==
  LET keep == {i \in 1..Len(s) : s[i] \notin chars}
  IN IF keep = {} THEN <<>>
     ELSE LET lo == CHOOSE i \in keep : \A j \in keep : i <= j
              hi == CHOOSE i \in keep : \A j \in keep : j <= i
          IN SubSeq(s, lo, hi)

\* the characters str.strip() removes and json skips, within the model's alphabet
Whitespace == {" ", "\t", "\n", "\r"}

Digits == {"0","1","2","3","4","5","6","7","8","9"}

(***************************************************************************)
(* json.loads, as the standard decoder scans a document: the scanner       *)
(* dispatches on the next character, arrays and objects skip whitespace    *)
(* around their items, and loads rejects text after the value.  A result   *)
(* is Ok(value, position after it) or Fail (JSONDecodeError).  Escapes     *)
(* \b, \f and \uXXXX denote characters outside the model's alphabet and    *)
(* are not decoded.                                                        *)
(***************************************************************************)
Ok(v, p) == [ok |-> TRUE, val |-> v, pos |-> p]
Fail == [ok |-> FALSE]

\* the character at position i, or "" past the end
At(s, i) == IF i >= 1 /\ i <= Len(s) THEN s[i] ELSE ""

\* the first position from i on whose character is not in chars
SkipChars(s, i, chars) ==
  CHOOSE j \in i..(Len(s) + 1) :
    /\ At(s, j) \notin chars
    /\ \A k \in i..(j - 1) : s[k] \in chars

\* WHITESPACE.match(s, i).end()
SkipWs(s, i) == IF i > Len(s) THEN i ELSE SkipChars(s, i, Whitespace)

SkipDigits(s, i) == IF i > Len(s) THEN i ELSE SkipChars(s, i, Digits)

DigitValue(c) == CHOOSE n \in 0..9 : <<"0","1","2","3","4","5","6","7","8","9">>[n + 1] = c

RECURSIVE DecimalValue(_, _, _)
\* int() of the digits s[i..j]
DecimalValue(s, i, j) ==
  IF j < i THEN 0 ELSE 10 * DecimalValue(s, i, j - 1) + DigitValue(s[j])

\* NUMBER_RE = (-?(?:0|[1-9]\d*))(\.\d+)?([eE][-+]?\d+)? matched at i
ScanNumber(s, i) ==
  LET d == IF At(s, i) = "-" THEN i + 1 ELSE i
      intEnd == IF At(s, d) = "0" THEN d + 1
                ELSE IF At(s, d) \in Digits THEN SkipDigits(s, d)
                ELSE d
      fracEnd == IF At(s, intEnd) = "." /\ At(s, intEnd + 1) \in Digits
                   THEN SkipDigits(s, intEnd + 1) ELSE intEnd
      e == IF At(s, fracEnd + 1) \in {"-", "+"} THEN fracEnd + 2 ELSE fracEnd + 1
      expEnd == IF At(s, fracEnd) \in {"e", "E"} /\ At(s, e) \in Digits
                  THEN SkipDigits(s, e) ELSE fracEnd
  IN IF intEnd = d THEN Fail
     ELSE IF expEnd = intEnd
       THEN Ok(IntV((IF d = i THEN 1 ELSE -1) * DecimalValue(s, d, intEnd - 1)), intEnd)
     ELSE Ok(FloatV(SubSeq(s, i, expEnd - 1)), expEnd)

\* BACKSLASH: the escapes of py_scanstring whose character is in the alphabet
Unescape(c) ==
  CASE c = "n" -> "\n"
    [] c = "t" -> "\t"
    [] c = "r" -> "\r"
    [] OTHER -> c

\* whether position j of s, at or after i, follows an odd run of backslashes
\* that starts at or after i: its character is then the object of an escape
Escaped(s, i, j) ==
  LET before == {k \in (i - 1)..(j - 1) : k = i - 1 \/ s[k] # "\\"}
      run == j - 1 - (CHOOSE k \in before : \A m \in before : m <= k)
  IN run % 2 = 1

\* py_scanstring(s, i), strict: i is the position after the opening quote.
\* The string ends at the first quote that no backslash escapes; a control
\* character or an escape other than \" \\ \/ \n \t \r is an error.
ScanString(s, i) ==
  LET quotes == {j \in i..Len(s) : s[j] = "\"" /\ ~Escaped(s, i, j)}
  IN IF quotes = {} THEN Fail
     ELSE LET close == CHOOSE j \in quotes : \A k \in quotes : j <= k
              body == i..(close - 1)
              slash(j) == s[j] = "\\" /\ ~Escaped(s, i, j)
              kept == SelectSeq([k \in 1..(close - i) |-> i + k - 1],
                                LAMBDA j : ~slash(j))
          IN IF \/ \E j \in body : s[j] \in {"\n", "\t", "\r"}
                \/ \E j \in body : Escaped(s, i, j)
                                     /\ s[j] \notin {"\"", "\\", "/", "n", "t", "r"}
               THEN Fail
               ELSE Ok(Str([k \in 1..Len(kept) |->
                              IF Escaped(s, i, kept[k]) THEN Unescape(s[kept[k]])
                              ELSE s[kept[k]]]),
                       close + 1)

RECURSIVE Scan(_, _, _, _)
\* The decoder's three scanning routines, as one operator:
\*   mode "value":  scanner.py_make_scanner._scan_once(s, i)
\*   mode "array":  JSONArray's loop; i is the start of an item, acc the items so far
\*   mode "object": JSONObject's loop; i is the opening quote of a key, acc the
\*                  pairs so far
Scan(s, i, mode, acc) ==
  LET c == At(s, i)
  IN CASE mode = "array" ->
            LET item == Scan(s, i, "value", <<>>)
            IN IF ~item.ok THEN Fail
               ELSE LET j == SkipWs(s, item.pos)
                        items == Append(acc, item.val)
                    IN IF At(s, j) = "]" THEN Ok(ListV(items), j + 1)
                       ELSE IF At(s, j) = ","
                         THEN Scan(s, SkipWs(s, j + 1), "array", items)
                       ELSE Fail
       [] mode = "object" ->
            LET key == ScanString(s, i + 1)
            IN IF ~key.ok THEN Fail
               ELSE LET j == SkipWs(s, key.pos)
                    IN IF At(s, j) # ":" THEN Fail
                       ELSE LET value == Scan(s, SkipWs(s, j + 1), "value", <<>>)
                            IN IF ~value.ok THEN Fail
                               ELSE LET m == SkipWs(s, value.pos)
                                        pairs == Append(acc, <<key.val, value.val>>)
                                        n == SkipWs(s, m + 1)
                                    IN IF At(s, m) = "}" THEN Ok(DictV(pairs), m + 1)
                                       ELSE IF At(s, m) = "," /\ At(s, n) = "\""
                                         THEN Scan(s, n, "object", pairs)
                                       ELSE Fail
       [] OTHER ->
            IF c = "" THEN Fail
            ELSE IF c = "\"" THEN ScanString(s, i + 1)
            ELSE IF c = "{"
              THEN LET j == SkipWs(s, i + 1)
                   IN IF At(s, j) = "}" THEN Ok(DictV(<<>>), j + 1)
                      ELSE IF At(s, j) = "\"" THEN Scan(s, j, "object", <<>>)
                      ELSE Fail
            ELSE IF c = "["
              THEN LET j == SkipWs(s, i + 1)
                   IN IF At(s, j) = "]" THEN Ok(ListV(<<>>), j + 1)
                      ELSE Scan(s, j, "array", <<>>)
            ELSE IF StartsAt(s, i, <<"n","u","l","l">>) THEN Ok(None, i + 4)
            ELSE IF StartsAt(s, i, <<"t","r","u","e">>) THEN Ok(BoolV(TRUE), i + 4)
            ELSE IF StartsAt(s, i, <<"f","a","l","s","e">>) THEN Ok(BoolV(FALSE), i + 5)
            ELSE IF ScanNumber(s, i).ok THEN ScanNumber(s, i)
            ELSE IF StartsAt(s, i, <<"N","a","N">>) THEN Ok(FloatV(<<"N","a","N">>), i + 3)
            ELSE IF StartsAt(s, i, <<"I","n","f","i","n","i","t","y">>)
              THEN Ok(FloatV(<<"I","n","f","i","n","i","t","y">>), i + 8)
            ELSE IF StartsAt(s, i, <<"-","I","n","f","i","n","i","t","y">>)
              THEN Ok(FloatV(<<"-","I","n","f","i","n","i","t","y">>), i + 9)
            ELSE Fail

\* the end of JSONDecoder.decode: r is what raw_decode scanned; text after the
\* value, other than whitespace, is an error ("Extra data")
DecodeEnd(s, r) ==
  IF r.ok /\ SkipWs(s, r.pos) = Len(s) + 1
    THEN Return(r.val)
    ELSE Raise("JSONDecodeError")

\* json.loads(s): Return(value), or Raise("JSONDecodeError")
json_loads(s) == DecodeEnd(s, Scan(s, SkipWs(s, 1), "value", <<>>))

(***************************************************************************)
(* Python's truth value, membership test and iteration, on the values the  *)
(* decoder can produce.                                                    *)
(***************************************************************************)
\* a float numeral is zero iff its mantissa has no non-zero digit
FloatIsZero(cs) ==
  LET stop == {i \in 1..Len(cs) : cs[i] \in {"e", "E"}}
      last == IF stop = {} THEN Len(cs) ELSE (CHOOSE i \in stop : TRUE) - 1
  IN /\ cs[1] \notin {"N", "I"} /\ At(cs, 2) # "I"
     /\ \A i \in 1..last : cs[i] \in {"-", ".", "0"}

\* bool(x)
Truthy(x) ==
  CASE x.t = "none" -> FALSE
    [] x.t = "bool" -> x.v
    [] x.t = "int" -> x.v # 0
    [] x.t = "float" -> ~FloatIsZero(x.v)
    [] OTHER -> Len(x.v) > 0

\* the keys of a dict
Keys(d) == {d.v[i][1] : i \in 1..Len(d.v)}

\* d[k], k a key of d: the value written last for k
GetItem(d, k) ==
  LET at == {i \in 1..Len(d.v) : d.v[i][1] = k}
  IN d.v[CHOOSE i \in at : \A j \in at : j <= i][2]

\* whether a value is hashable (can be an element of a set)
Hashable(x) == x.t \notin {"list", "dict"}

\* an element as a set holds it: True == 1 and False == 0 hash alike
SetElem(x) == IF x.t = "bool" THEN IntV(IF x.v THEN 1 ELSE 0) ELSE x

(***************************************************************************)
(* EnhancedOrchestrator: the agent registry, in insertion order.           *)
(***************************************************************************)
agent_registry ==
  <<
     \* "orchestrator": ["coordination", "routing", "task-management"]
     [name |-> Str(<<"o","r","c","h","e","s","t","r","a","t","o","r">>),
      specialist_tags |-> <<
          Str(<<"c","o","o","r","d","i","n","a","t","i","o","n">>),
          Str(<<"r","o","u","t","i","n","g">>),
          Str(<<"t","a","s","k","-","m","a","n","a","g","e","m","e","n","t">>) >>,
      capabilities |-> <<
          Str(<<"t","a","s","k","_","d","e","l","e","g","a","t","i","o","n">>),
          Str(<<"a","g","e","n","t","_","c","o","o","r","d","i","n","a","t","i","o","n">>),
          Str(<<"c","o","n","f","l","i","c","t","_","r","e","s","o","l","u","t","i","o","n">>) >>],
     \* "prd": ["requirements", "planning", "documentation", "analysis"]
     [name |-> Str(<<"p","r","d">>),
      specialist_tags |-> <<
          Str(<<"r","e","q","u","i","r","e","m","e","n","t","s">>),
          Str(<<"p","l","a","n","n","i","n","g">>),
          Str(<<"d","o","c","u","m","e","n","t","a","t","i","o","n">>),
          Str(<<"a","n","a","l","y","s","i","s">>) >>,
      capabilities |-> <<
          Str(<<"p","r","d","_","g","e","n","e","r","a","t","i","o","n">>),
          Str(<<"r","e","q","u","i","r","e","m","e","n","t","s","_","g","a","t","h","e","r","i","n","g">>),
          Str(<<"s","p","e","c","i","f","i","c","a","t","i","o","n">>) >>],
     \* "generate-tasks": ["task-generation", "planning", "breakdown"]
     [name |-> Str(<<"g","e","n","e","r","a","t","e","-","t","a","s","k","s">>),
      specialist_tags |-> <<
          Str(<<"t","a","s","k","-","g","e","n","e","r","a","t","i","o","n">>),
          Str(<<"p","l","a","n","n","i","n","g">>), Str(<<"b","r","e","a","k","d","o","w","n">>) >>,
      capabilities |-> <<
          Str(<<"t","a","s","k","_","b","r","e","a","k","d","o","w","n">>),
          Str(<<"p","a","r","a","l","l","e","l","i","z","a","t","i","o","n">>),
          Str(<<"d","e","p","e","n","d","e","n","c","y","_","m","a","p","p","i","n","g">>) >>],
     \* "task-coordinator": ["bd", "bv", "beads", "task-tracking"]
     [name |-> Str(<<"t","a","s","k","-","c","o","o","r","d","i","n","a","t","o","r">>),
      specialist_tags |-> <<
          Str(<<"b","d">>), Str(<<"b","v">>), Str(<<"b","e","a","d","s">>),
          Str(<<"t","a","s","k","-","t","r","a","c","k","i","n","g">>) >>,
      capabilities |-> <<
          Str(<<"t","a","s","k","_","m","a","n","a","g","e","m","e","n","t">>),
          Str(<<"d","e","p","e","n","d","e","n","c","y","_","t","r","a","c","k","i","n","g">>),
          Str(<<"p","r","o","g","r","e","s","s","_","m","o","n","i","t","o","r","i","n","g">>) >>],
     \* "codebase-researcher": ["codebase", "research", "analysis", "patterns"]
     [name |-> Str(<<"c","o","d","e","b","a","s","e","-","r","e","s","e","a","r","c","h","e","r">>),
      specialist_tags |-> <<
          Str(<<"c","o","d","e","b","a","s","e">>), Str(<<"r","e","s","e","a","r","c","h">>),
          Str(<<"a","n","a","l","y","s","i","s">>), Str(<<"p","a","t","t","e","r","n","s">>) >>,
      capabilities |-> <<
          Str(<<"c","o","d","e","_","a","n","a","l","y","s","i","s">>),
          Str(<<"p","a","t","t","e","r","n","_","d","e","t","e","c","t","i","o","n">>),
          Str(<<"a","r","c","h","i","t","e","c","t","u","r","e","_","r","e","v","i","e","w">>) >>],
     \* "git-history-analyzer": ["git", "history", "analysis", "evolution"]
     [name |-> Str(<<"g","i","t","-","h","i","s","t","o","r","y","-","a","n","a","l","y","z","e","r">>),
      specialist_tags |-> <<
          Str(<<"g","i","t">>), Str(<<"h","i","s","t","o","r","y">>),
          Str(<<"a","n","a","l","y","s","i","s">>), Str(<<"e","v","o","l","u","t","i","o","n">>) >>,
      capabilities |-> <<
          Str(<<"c","o","m","m","i","t","_","a","n","a","l","y","s","i","s">>),
          Str(<<"c","h","a","n","g","e","_","t","r","a","c","k","i","n","g">>),
          Str(<<"c","o","l","l","a","b","o","r","a","t","i","o","n","_","a","n","a","l","y","s","i","s">>) >>],
     \* "figma-design-extractor": ["figma", "design", "ui", "frontend"]
     [name |-> Str(<<"f","i","g","m","a","-","d","e","s","i","g","n","-","e","x","t","r","a","c","t","o","r">>),
      specialist_tags |-> <<
          Str(<<"f","i","g","m","a">>), Str(<<"d","e","s","i","g","n">>), Str(<<"u","i">>),
          Str(<<"f","r","o","n","t","e","n","d">>) >>,
      capabilities |-> <<
          Str(<<"d","e","s","i","g","n","_","e","x","t","r","a","c","t","i","o","n">>),
          Str(<<"t","o","k","e","n","_","a","n","a","l","y","s","i","s">>),
          Str(<<"c","o","m","p","o","n","e","n","t","_","s","p","e","c","i","f","i","c","a","t","i","o","n">>) >>],
     \* "implementation": ["implementation", "coding", "development"]
     [name |-> Str(<<"i","m","p","l","e","m","e","n","t","a","t","i","o","n">>),
      specialist_tags |-> <<
          Str(<<"i","m","p","l","e","m","e","n","t","a","t","i","o","n">>),
          Str(<<"c","o","d","i","n","g">>), Str(<<"d","e","v","e","l","o","p","m","e","n","t">>) >>,
      capabilities |-> <<
          Str(<<"c","o","d","e","_","g","e","n","e","r","a","t","i","o","n">>),
          Str(<<"f","e","a","t","u","r","e","_","i","m","p","l","e","m","e","n","t","a","t","i","o","n">>),
          Str(<<"i","n","t","e","g","r","a","t","i","o","n">>) >>],
     \* "testing": ["testing", "validation", "quality"]
     [name |-> Str(<<"t","e","s","t","i","n","g">>),
      specialist_tags |-> <<
          Str(<<"t","e","s","t","i","n","g">>),
          Str(<<"v","a","l","i","d","a","t","i","o","n">>), Str(<<"q","u","a","l","i","t","y">>) >>,
      capabilities |-> <<
          Str(<<"t","e","s","t","_","g","e","n","e","r","a","t","i","o","n">>),
          Str(<<"v","a","l","i","d","a","t","i","o","n">>),
          Str(<<"v","e","r","i","f","i","c","a","t","i","o","n">>) >>],
     \* "fixing": ["fixing", "debugging", "repair"]
     [name |-> Str(<<"f","i","x","i","n","g">>),
      specialist_tags |-> <<
          Str(<<"f","i","x","i","n","g">>), Str(<<"d","e","b","u","g","g","i","n","g">>),
          Str(<<"r","e","p","a","i","r">>) >>,
      capabilities |-> <<
          Str(<<"b","u","g","_","f","i","x","i","n","g">>),
          Str(<<"i","s","s","u","e","_","r","e","s","o","l","u","t","i","o","n">>),
          Str(<<"t","r","o","u","b","l","e","s","h","o","o","t","i","n","g">>) >>],
     \* "verification": ["verification", "review", "approval"]
     [name |-> Str(<<"v","e","r","i","f","i","c","a","t","i","o","n">>),
      specialist_tags |-> <<
          Str(<<"v","e","r","i","f","i","c","a","t","i","o","n">>),
          Str(<<"r","e","v","i","e","w">>), Str(<<"a","p","p","r","o","v","a","l">>) >>,
      capabilities |-> <<
          Str(<<"f","i","n","a","l","_","r","e","v","i","e","w">>),
          Str(<<"s","i","g","n","_","o","f","f">>),
          Str(<<"q","u","a","l","i","t","y","_","a","s","s","u","r","a","n","c","e">>) >>]
  >>


\* the literal marker 'EXPLICIT_HANDOFF:'
HandoffMarker == <<"E","X","P","L","I","C","I","T","_","H","A","N","D","O","F","F",":">>

\* the key 'specialist_tags'
SpecialistTagsKey == Str(<<"s","p","e","c","i","a","l","i","s","t","_","t","a","g","s">>)

\* the sentinel tag 'general'
GeneralTag == Str(<<"g","e","n","e","r","a","l">>)

\* A task record is a function from the keys it has ("title", "description",
\* "notes") to strings.  task_data.get(key, '')
TaskGet(task_data, key) == IF key \in DOMAIN task_data THEN task_data[key] ELSE <<>>

\* json_str of parse_notes_for_handoff: the notes without the marker, stripped
\* of whitespace and then of surrounding quote characters
HandoffJsonStr(notes) ==
  StripChars(StripChars(Remove(notes, HandoffMarker), Whitespace), {"\"", "'"})

\* ExceptDecodeError with no except clause: the error propagates
ExceptNothing(loaded) == loaded

\* the try/except of parse_notes_for_handoff around json.loads: a
\* JSONDecodeError (a ValueError) is logged and None returned
ExceptDecodeError(loaded) == IF loaded.kind = "raise" THEN Return(None) ELSE loaded

\* parse_notes_for_handoff(notes): the outcome of the call
parse_notes_for_handoff(notes) ==
  IF Len(notes) = 0 \/ ~Contains(notes, HandoffMarker) THEN Return(None)
  ELSE ExceptDecodeError(json_loads(HandoffJsonStr(notes)))

\* tags.update(x) on the empty set: the outcome, Return(the set) or Raise
SetUpdate(x) ==
  CASE x.t = "list" ->
         IF \A i \in 1..Len(x.v) : Hashable(x.v[i])
           THEN Return({SetElem(x.v[i]) : i \in 1..Len(x.v)})
           ELSE Raise("TypeError")
    [] x.t = "str" -> Return({Str(<<x.v[i]>>) : i \in 1..Len(x.v)})
    [] x.t = "dict" -> Return(Keys(x))
    [] OTHER -> Raise("TypeError")

\* 'specialist_tags' in x, for x a dict, list or str
HasSpecialistTags(x) ==
  CASE x.t = "dict" -> SpecialistTagsKey \in Keys(x)
    [] x.t = "list" -> \E i \in 1..Len(x.v) : x.v[i].t = "str" /\ x.v[i] = SpecialistTagsKey
    [] x.t = "str" -> Contains(x.v, SpecialistTagsKey.v)

\* extract_specialist_tags, lines 138-139, on the parsed handoff_data:
\*   if handoff_data and 'specialist_tags' in handoff_data:
\*       tags.update(handoff_data['specialist_tags'])
\* The membership test raises on a value that is no container, the subscript
\* on a list or a str.
TagsOfHandoff(handoff_data) ==
  IF ~Truthy(handoff_data) THEN Return({})
  ELSE IF handoff_data.t \notin {"dict", "list", "str"} THEN Raise("TypeError")
  ELSE IF ~HasSpecialistTags(handoff_data) THEN Return({})
  ELSE IF handoff_data.t # "dict" THEN Raise("TypeError")
  ELSE SetUpdate(GetItem(handoff_data, SpecialistTagsKey))

\* extract_specialist_tags, lines 137-139, on the outcome of the parse call: an
\* exception of the call would propagate
HandoffTags(parse_outcome) ==
  IF parse_outcome.kind = "raise" THEN parse_outcome
  ELSE TagsOfHandoff(parse_outcome.value)

\* extract_specialist_tags, lines 135-139: the tags the notes contribute
ExplicitTags(task_data) ==
  IF "notes" \notin DOMAIN task_data \/ Len(task_data["notes"]) = 0 THEN Return({})
  ELSE HandoffTags(parse_notes_for_handoff(task_data["notes"]))

keyword_map ==
  <<
     \* "python": ["python", "backend", "django", "flask", "fastapi"]
     [tag |-> Str(<<"p","y","t","h","o","n">>),
      keywords |-> <<
          <<"p","y","t","h","o","n">>, <<"b","a","c","k","e","n","d">>,
          <<"d","j","a","n","g","o">>, <<"f","l","a","s","k">>, <<"f","a","s","t","a","p","i">> >>],
     \* "testing": ["testing", "tests", "pytest", "unittest", "validate", "test"]
     [tag |-> Str(<<"t","e","s","t","i","n","g">>),
      keywords |-> <<
          <<"t","e","s","t","i","n","g">>, <<"t","e","s","t","s">>, <<"p","y","t","e","s","t">>,
          <<"u","n","i","t","t","e","s","t">>, <<"v","a","l","i","d","a","t","e">>,
          <<"t","e","s","t">> >>],
     \* "mcp": ["mcp", "agent", "mail", "orchestrator", "coordination"]
     [tag |-> Str(<<"m","c","p">>),
      keywords |-> <<
          <<"m","c","p">>, <<"a","g","e","n","t">>, <<"m","a","i","l">>,
          <<"o","r","c","h","e","s","t","r","a","t","o","r">>,
          <<"c","o","o","r","d","i","n","a","t","i","o","n">> >>],
     \* "frontend": ["react", "typescript", "javascript", "frontend", "ui", "component", "html", "css"]
     [tag |-> Str(<<"f","r","o","n","t","e","n","d">>),
      keywords |-> <<
          <<"r","e","a","c","t">>, <<"t","y","p","e","s","c","r","i","p","t">>,
          <<"j","a","v","a","s","c","r","i","p","t">>, <<"f","r","o","n","t","e","n","d">>,
          <<"u","i">>, <<"c","o","m","p","o","n","e","n","t">>, <<"h","t","m","l">>,
          <<"c","s","s">> >>],
     \* "database": ["database", "sql", "migration", "schema", "sqlite", "postgres", "mysql"]
     [tag |-> Str(<<"d","a","t","a","b","a","s","e">>),
      keywords |-> <<
          <<"d","a","t","a","b","a","s","e">>, <<"s","q","l">>,
          <<"m","i","g","r","a","t","i","o","n">>, <<"s","c","h","e","m","a">>,
          <<"s","q","l","i","t","e">>, <<"p","o","s","t","g","r","e","s">>,
          <<"m","y","s","q","l">> >>],
     \* "documentation": ["documentation", "docs", "readme", "guide", "comment"]
     [tag |-> Str(<<"d","o","c","u","m","e","n","t","a","t","i","o","n">>),
      keywords |-> <<
          <<"d","o","c","u","m","e","n","t","a","t","i","o","n">>, <<"d","o","c","s">>,
          <<"r","e","a","d","m","e">>, <<"g","u","i","d","e">>, <<"c","o","m","m","e","n","t">> >>],
     \* "shell": ["bash", "shell", "script", "automation"]
     [tag |-> Str(<<"s","h","e","l","l">>),
      keywords |-> <<
          <<"b","a","s","h">>, <<"s","h","e","l","l">>, <<"s","c","r","i","p","t">>,
          <<"a","u","t","o","m","a","t","i","o","n">> >>],
     \* "validation": ["validate", "verify", "check", "ensure"]
     [tag |-> Str(<<"v","a","l","i","d","a","t","i","o","n">>),
      keywords |-> <<
          <<"v","a","l","i","d","a","t","e">>, <<"v","e","r","i","f","y">>,
          <<"c","h","e","c","k">>, <<"e","n","s","u","r","e">> >>],
     \* "implementation": ["implement", "code", "develop", "create", "build"]
     [tag |-> Str(<<"i","m","p","l","e","m","e","n","t","a","t","i","o","n">>),
      keywords |-> <<
          <<"i","m","p","l","e","m","e","n","t">>, <<"c","o","d","e">>,
          <<"d","e","v","e","l","o","p">>, <<"c","r","e","a","t","e">>, <<"b","u","i","l","d">> >>],
     \* "fixing": ["fix", "repair", "debug", "resolve"]
     [tag |-> Str(<<"f","i","x","i","n","g">>),
      keywords |-> <<
          <<"f","i","x">>, <<"r","e","p","a","i","r">>, <<"d","e","b","u","g">>,
          <<"r","e","s","o","l","v","e">> >>],
     \* "git": ["git", "commit", "history", "branch", "merge"]
     [tag |-> Str(<<"g","i","t">>),
      keywords |-> <<
          <<"g","i","t">>, <<"c","o","m","m","i","t">>, <<"h","i","s","t","o","r","y">>,
          <<"b","r","a","n","c","h">>, <<"m","e","r","g","e">> >>],
     \* "figma": ["figma", "design", "ui", "mockup", "prototype"]
     [tag |-> Str(<<"f","i","g","m","a">>),
      keywords |-> <<
          <<"f","i","g","m","a">>, <<"d","e","s","i","g","n">>, <<"u","i">>,
          <<"m","o","c","k","u","p">>, <<"p","r","o","t","o","t","y","p","e">> >>]
  >>

\* text of extract_specialist_tags: title and description joined, lower-cased
TaskText(task_data) ==
  Lower(TaskGet(task_data, "title") \o <<" ">> \o TaskGet(task_data, "description"))

\* extract_specialist_tags, lines 161-163: the tags detected from the text
AutoTags(text) ==
  {keyword_map[i].tag : i \in {j \in 1..Len(keyword_map) :
      \E k \in 1..Len(keyword_map[j].keywords) : Contains(text, keyword_map[j].keywords[k])}}

\* AddGeneral with the sentinel step forgotten
AddGeneralNever(tags) == tags

\* extract_specialist_tags, lines 165-169: 'general' is added to an empty set
AddGeneral(tags) == IF tags = {} THEN {GeneralTag} ELSE tags

\* the tags of both sources together; an exception of the first step propagates
CollectTags(explicit, auto) ==
  IF explicit.kind = "raise" THEN explicit
  ELSE Return(AddGeneral(explicit.value \cup auto))

\* extract_specialist_tags(task_data): Return(the tags) or Raise.  The list the
\* code returns is list(tags) of a set; it is modelled as that set.
extract_specialist_tags(task_data) ==
  CollectTags(ExplicitTags(task_data), AutoTags(TaskText(task_data)))

(***************************************************************************)
(* Matching.  A score is the quotient overlap / total of two small         *)
(* integers, kept exact as [num, den]; the code's float quotients of such  *)
(* integers compare as the exact quotients do.                             *)
(***************************************************************************)
\* the floor of match_agent_to_task, 0.3 = MinScoreNum / MinScoreDen
MinScoreNum == 3
MinScoreDen == 10

ScoreLess(a, b) == a.num * b.den < b.num * a.den

\* MeetsFloor with a strict comparison, best_agent[1] > 0.3
MeetsFloorStrict(score) == score.num * MinScoreDen > MinScoreNum * score.den

\* best_agent[1] >= 0.3
MeetsFloor(score) == score.num * MinScoreDen >= MinScoreNum * score.den

\* Jaccard with the agent's tag count for the union: overlap / len(agent_tags)
JaccardOverAgent(agent_tags, task_tag_set) ==
  LET overlap == Cardinality(agent_tags \cap task_tag_set)
      total == Cardinality(agent_tags)
  IN IF total > 0 THEN [num |-> overlap, den |-> total] ELSE [num |-> 0, den |-> 1]

\* overlap / total if total > 0 else 0
Jaccard(agent_tags, task_tag_set) ==
  LET overlap == Cardinality(agent_tags \cap task_tag_set)
      total == Cardinality(agent_tags \cup task_tag_set)
  IN IF total > 0 THEN [num |-> overlap, den |-> total] ELSE [num |-> 0, den |-> 1]

\* agent_scores of match_agent_to_task: (agent name, score) in registry order
AgentScores(specialist_tags) ==
  [i \in 1..Len(agent_registry) |->
     [name |-> agent_registry[i].name,
      score |-> Jaccard(Range(agent_registry[i].specialist_tags), specialist_tags)]]

RECURSIVE MaxFromLast(_, _, _)
\* MaxFrom keeping the later of two items of equal score
MaxFromLast(items, i, best) ==
  IF i > Len(items) THEN best
  ELSE MaxFromLast(items, i + 1,
                   IF ScoreLess(items[i].score, items[best].score) THEN best ELSE i)

RECURSIVE MaxFrom(_, _, _)
\* max(items, key=score), scanning from item i with the best so far at index best
MaxFrom(items, i, best) ==
  IF i > Len(items) THEN best
  ELSE MaxFrom(items, i + 1, IF ScoreLess(items[best].score, items[i].score) THEN i ELSE best)

\* max(agent_scores.items(), key=lambda x: x[1]): the first item of maximal score
MaxByScore(items) == items[MaxFrom(items, 2, 1)]

\* agent_scores as match_agent_to_task leaves it: empty when the call ended
\* before the scoring loop
ScoresBuilt(extracted_tags) ==
  IF extracted_tags.kind = "return" /\ extracted_tags.value # {}
    THEN AgentScores(extracted_tags.value) ELSE <<>>

\* The best agent returned whatever its score
AboveFloorless(best_agent) == Return(best_agent.name)

\* match_agent_to_task, lines 203-207: the best agent, if its score is meaningful
AboveFloor(best_agent) ==
  IF MeetsFloor(best_agent.score) THEN Return(best_agent.name) ELSE Return(None)

\* match_agent_to_task, lines 183-207, on the outcome of the extraction
MatchTags(extracted_tags) ==
  IF extracted_tags.kind = "raise" THEN extracted_tags
  ELSE IF extracted_tags.value = {} THEN Return(None)
  ELSE AboveFloor(MaxByScore(AgentScores(extracted_tags.value)))

\* match_agent_to_task(task_data): Return(agent name or None), or Raise
match_agent_to_task(task_data) == MatchTags(extract_specialist_tags(task_data))

\* round(n / d) to an integer, ties to even, as Python's round does
RoundHalfEven(n, d) ==
  LET q == n \div d
      r == n % d
  IN IF 2 * r < d THEN q
     ELSE IF 2 * r > d THEN q + 1
     ELSE IF q % 2 = 0 THEN q ELSE q + 1

\* Confidence truncating to one decimal place instead of rounding
ConfidenceTruncated(agent_tags, task_tag_set) ==
  LET overlap == Cardinality(agent_tags \cap task_tag_set)
      total == Cardinality(agent_tags \cup task_tag_set)
  IN IF total > 0 THEN (overlap * 1000) \div total ELSE 0

\* round(overlap / total * 100, 1) if total > 0 else 0, in tenths of a percent
Confidence(agent_tags, task_tag_set) ==
  LET overlap == Cardinality(agent_tags \cap task_tag_set)
      total == Cardinality(agent_tags \cup task_tag_set)
  IN IF total > 0 THEN RoundHalfEven(overlap * 1000, total) ELSE 0

\* self.agent_registry.get(assigned_agent, {}).get('specialist_tags', [])
RegistryTags(agent_name) ==
  LET at == {i \in 1..Len(agent_registry) : agent_registry[i].name = agent_name}
  IN IF at = {} THEN {} ELSE Range(agent_registry[CHOOSE i \in at : TRUE].specialist_tags)

\* get_routing_suggestion, lines 324-345, on the outcomes of its two calls
Suggest(extracted_tags, assigned_agent) ==
  IF extracted_tags.kind = "raise" THEN extracted_tags
  ELSE IF assigned_agent.kind = "raise" THEN assigned_agent
  ELSE IF Truthy(assigned_agent.value)
    THEN Return([suggested_agent |-> assigned_agent.value,
                 confidence |-> Confidence(RegistryTags(assigned_agent.value),
                                           extracted_tags.value),
                 reason |-> RegistryTags(assigned_agent.value) \cap extracted_tags.value,
                 specialist_tags |-> extracted_tags.value])
  ELSE Return([suggested_agent |-> None,
               confidence |-> 0,
               reason |-> {},
               specialist_tags |-> extracted_tags.value])

\* get_routing_suggestion(task_data): Return(the suggestion) or Raise.
\* confidence is in tenths of a percent; reason holds the matched tags it names.
get_routing_suggestion(task_data) ==
  Suggest(extract_specialist_tags(task_data), match_agent_to_task(task_data))

(***************************************************************************)
(* mcp_agent_mail_client: the response normalizer.  A raw response is a    *)
(* Python value as the transport hands it over; an exception carries the   *)
(* argument it was raised with.                                            *)
(***************************************************************************)
\* raise e(arg)
RaiseWith(e, arg) == [kind |-> "raise", exc |-> e, arg |-> arg]

\* the keys and texts the normalizer looks for: the marks of an embedded
\* error are "Error" as it stands and "not found" in any case
ClientLit ==
  [content |-> Str(<<"c","o","n","t","e","n","t">>),
   structuredContent |-> Str(<<"s","t","r","u","c","t","u","r","e","d","C","o","n","t","e","n","t">>),
   result |-> Str(<<"r","e","s","u","l","t">>),
   type |-> Str(<<"t","y","p","e">>),
   text |-> Str(<<"t","e","x","t">>),
   text_type |-> Str(<<"t","e","x","t">>),
   Error |-> <<"E","r","r","o","r">>,
   not_found |-> <<"n","o","t"," ","f","o","u","n","d">>,
   empty_object |-> Str(<<"{","}">>)]

\* whether x supports 'in' and len()
Sized(x) == x.t \in {"dict", "list", "str"}

\* k in x, for a string k and a sized x (on any other x the test raises, see
\* CheckEmbeddedError)
In(k, x) ==
  CASE x.t = "dict" -> k \in Keys(x)
    [] x.t = "list" -> k \in Range(x.v)
    [] x.t = "str" -> Contains(x.v, k.v)
    [] OTHER -> FALSE

\* d.get(k, default), d a dict
DictGet(d, k, default) == IF k \in Keys(d) THEN GetItem(d, k) ELSE default

\* x[0]: Return(the first item) or Raise; a dict decoded from JSON has no key 0
First(x) ==
  CASE x.t = "list" -> IF Len(x.v) > 0 THEN Return(x.v[1]) ELSE Raise("IndexError")
    [] x.t = "str" -> IF Len(x.v) > 0 THEN Return(Str(<<x.v[1]>>)) ELSE Raise("IndexError")
    [] x.t = "dict" -> Raise("KeyError")
    [] OTHER -> Raise("TypeError")

\* "Error" in text or "not found" in text.lower(), then raise Exception(text):
\* Return(None) when the text carries no mark
RaiseIfMarked(text) ==
  CASE text.t = "str" ->
         IF Contains(text.v, ClientLit.Error) \/ Contains(Lower(text.v), ClientLit.not_found)
           THEN RaiseWith("Exception", text)
           ELSE Return(None)
    [] text.t \in {"list", "dict"} ->
         IF In(Str(ClientLit.Error), text) THEN RaiseWith("Exception", text)
         ELSE Raise("AttributeError")
    [] OTHER -> Raise("TypeError")

\* lines 53-58, on the first element of the content array
CheckFirstContent(first_content) ==
  IF first_content.kind = "raise" THEN first_content
  ELSE IF first_content.value.t # "dict" THEN Raise("AttributeError")
  ELSE IF DictGet(first_content.value, ClientLit.type, None) = ClientLit.text_type
    THEN RaiseIfMarked(DictGet(first_content.value, ClientLit.text, Str(<<>>)))
  ELSE Return(None)

\* lines 52-58, "content" being in response: Return(None) when no error is embedded
CheckContent(response) ==
  IF response.t # "dict" THEN Raise("AttributeError")
  ELSE IF ~Sized(GetItem(response, ClientLit.content)) THEN Raise("TypeError")
  ELSE IF Len(GetItem(response, ClientLit.content).v) > 0
    THEN CheckFirstContent(First(GetItem(response, ClientLit.content)))
  ELSE Return(None)

\* CheckEmbeddedError failing as well on a response flagged isError
CheckEmbeddedOrFlagged(response) ==
  IF ~Sized(response) THEN Raise("TypeError")
  ELSE IF response.t = "dict" /\ DictGet(response, Str(<<"i","s","E","r","r","o","r">>), BoolV(FALSE)) = BoolV(TRUE)
    THEN RaiseWith("Exception", Str(<<"i","s","E","r","r","o","r">>))
  ELSE IF In(ClientLit.content, response) THEN CheckContent(response)
  ELSE Return(None)

\* lines 51-58: the check for an error in the content array
CheckEmbeddedError(response) ==
  IF ~Sized(response) THEN Raise("TypeError")
  ELSE IF In(ClientLit.content, response) THEN CheckContent(response)
  ELSE Return(None)

\* response[key]: only a dict can be subscripted with a string
Subscript(response, key) ==
  IF response.t = "dict" THEN Return(GetItem(response, key)) ELSE Raise("TypeError")

\* json.loads(x): a value that is not text is a TypeError
LoadsValue(x) == IF x.t = "str" THEN json_loads(x.v) ELSE Raise("TypeError")

\* WrappedOrRaw returning the envelope where the text parses
WrappedUnparsed(response, loaded) ==
  IF loaded.kind = "raise" /\ loaded.exc # "JSONDecodeError" THEN loaded
  ELSE Return(response)

\* lines 74-81: the parsed text, or the raw response when json.loads rejects it
WrappedOrRaw(response, loaded) ==
  IF loaded.kind = "return" THEN loaded
  ELSE IF loaded.exc = "JSONDecodeError" THEN Return(response)
  ELSE loaded

\* lines 72-84, "result" and "content" being in response
WrappedResult(response) ==
  IF response.t # "dict" THEN Raise("AttributeError")
  ELSE IF ~Sized(GetItem(response, ClientLit.content)) THEN Raise("TypeError")
  ELSE IF Len(GetItem(response, ClientLit.content).v) = 0 THEN Return(response)
  ELSE IF First(GetItem(response, ClientLit.content)).kind = "raise"
    THEN First(GetItem(response, ClientLit.content))
  ELSE IF First(GetItem(response, ClientLit.content)).value.t # "dict" THEN Raise("AttributeError")
  ELSE IF DictGet(First(GetItem(response, ClientLit.content)).value, ClientLit.type, None) = ClientLit.text_type
    THEN WrappedOrRaw(response,
           LoadsValue(DictGet(First(GetItem(response, ClientLit.content)).value,
                              ClientLit.text, ClientLit.empty_object)))
  ELSE Return(response)

\* ExtractShape without the bare-result case
ExtractShapeNoBare(response) ==
  IF In(ClientLit.structuredContent, response)
    THEN Subscript(response, ClientLit.structuredContent)
  ELSE IF In(ClientLit.result, response) /\ In(ClientLit.content, response)
    THEN WrappedResult(response)
  ELSE Return(response)

\* ExtractShape discriminating the bare result before structuredContent
ExtractShapeResultFirst(response) ==
  IF In(ClientLit.result, response) /\ ~In(ClientLit.content, response)
    THEN Subscript(response, ClientLit.result)
  ELSE IF In(ClientLit.structuredContent, response)
    THEN Subscript(response, ClientLit.structuredContent)
  ELSE IF In(ClientLit.result, response) /\ In(ClientLit.content, response)
    THEN WrappedResult(response)
  ELSE Return(response)

\* lines 60-84: the shapes, in the order the code tests them
ExtractShape(response) ==
  IF In(ClientLit.structuredContent, response)
    THEN Subscript(response, ClientLit.structuredContent)
  ELSE IF In(ClientLit.result, response) /\ ~In(ClientLit.content, response)
    THEN Subscript(response, ClientLit.result)
  ELSE IF In(ClientLit.result, response) /\ In(ClientLit.content, response)
    THEN WrappedResult(response)
  ELSE Return(response)

\* AfterCheck with the outcome of the check ignored
AfterCheckIgnored(response, checked) == ExtractShape(response)

\* the rest of the function, reached when the check did not raise
AfterCheck(response, checked) ==
  IF checked.kind = "raise" THEN checked ELSE ExtractShape(response)

\* _extract_structured_content(response): Return(the payload) or Raise
_extract_structured_content(response) ==
  AfterCheck(response, CheckEmbeddedError(response))

(***************************************************************************)
(* mcp_agent_mail_client: the transport wrappers.  A wrapper builds the    *)
(* arguments, awaits mcp_client.call_tool once, normalizes the answer and  *)
(* turns any Exception into a failure result.                              *)
(***************************************************************************)
\* a Python object json.dumps has no encoding for (a set, a datetime, ...)
Opaque == [t |-> "object"]

RECURSIVE Serializable(_)
\* whether json.dumps(x) returns: every leaf of x has a JSON encoding
Serializable(x) ==
  CASE x.t = "object" -> FALSE
    [] x.t = "list" -> \A i \in 1..Len(x.v) : Serializable(x.v[i])
    [] x.t = "dict" -> \A i \in 1..Len(x.v) : Serializable(x.v[i][2])
    [] OTHER -> TRUE

\* the text json.dumps(x) returns, named by the value it encodes
JsonDumps(x) == [t |-> "str", dumps_of |-> x]

\* the text str(x) returns for a value that is not text, named by that value
StrOf(x) == IF x.t = "str" THEN x ELSE [t |-> "str", str_of |-> x]

\* str(e): the argument the exception was raised with; for an error the
\* interpreter raised, its message, named by the class of the error
StrOfError(raised) ==
  IF "arg" \in DOMAIN raised THEN StrOf(raised.arg)
  ELSE [t |-> "str", message_of |-> raised.exc]

\* the fixed arguments of the calls
Caller ==
  [project_key |-> Str(<<"/","r","e","p","o">>),
   orchestrator |-> Str(<<"o","r","c","h","e","s","t","r","a","t","o","r">>),
   droid |-> Str(<<"f","r","o","n","t","e","n","d","-","d","e","v">>),
   model |-> Str(<<"g","p","t","-","4">>),
   importance |-> Str(<<"n","o","r","m","a","l">>)]

\* register_agent, lines 113-121: params, "name" only when agent_name is truthy
RegisterParams(project_key, agent_name, model, task_description) ==
  DictV(<< <<Str(<<"p","r","o","j","e","c","t","_","k","e","y">>), project_key>>,
           <<Str(<<"p","r","o","g","r","a","m">>), Str(<<"f","a","c","t","o","r","y","-","d","r","o","i","d">>)>>,
           <<Str(<<"m","o","d","e","l">>), model>>,
           <<Str(<<"t","a","s","k","_","d","e","s","c","r","i","p","t","i","o","n">>), task_description>> >>
        \o (IF Truthy(agent_name) THEN << <<Str(<<"n","a","m","e">>), agent_name>> >> ELSE <<>>))

\* send_message, line 171: json.dumps(content) if "type" in content else str(content)
BodyMd(content) ==
  IF Str(<<"t","y","p","e">>) \in Keys(content)
    THEN IF Serializable(content) THEN Return(JsonDumps(content)) ELSE Raise("TypeError")
    ELSE Return(StrOf(content))

\* send_message, lines 166-173, the body already built
SendArgumentsWith(project_key, sender_name, recipient_name, content, importance, body_md) ==
  IF body_md.kind = "raise" THEN body_md
  ELSE Return(DictV(<< <<Str(<<"p","r","o","j","e","c","t","_","k","e","y">>), project_key>>,
                       <<Str(<<"s","e","n","d","e","r","_","n","a","m","e">>), sender_name>>,
                       <<Str(<<"t","o">>), ListV(<<recipient_name>>)>>,
                       <<Str(<<"s","u","b","j","e","c","t">>), DictGet(content, Str(<<"s","u","b","j","e","c","t">>), Str(<<>>))>>,
                       <<Str(<<"b","o","d","y","_","m","d">>), body_md.value>>,
                       <<Str(<<"i","m","p","o","r","t","a","n","c","e">>), importance>> >>))

\* send_message, lines 166-173: Return(the arguments), or Raise when content
\* has no get() or no JSON encoding
SendArguments(project_key, sender_name, recipient_name, content, importance) ==
  IF content.t # "dict" THEN Raise("AttributeError")
  ELSE SendArgumentsWith(project_key, sender_name, recipient_name, content, importance,
                         BodyMd(content))

\* fetch_inbox, lines 207-212
FetchArguments(project_key, agent_name, limit, acknowledged_only) ==
  DictV(<< <<Str(<<"p","r","o","j","e","c","t","_","k","e","y">>), project_key>>, <<Str(<<"a","g","e","n","t","_","n","a","m","e">>), agent_name>>,
           <<Str(<<"l","i","m","i","t">>), limit>>, <<Str(<<"a","c","k","n","o","w","l","e","d","g","e","d","_","o","n","l","y">>), acknowledged_only>> >>)

\* acknowledge_message, lines 244-248
AcknowledgeArguments(project_key, agent_name, message_id) ==
  DictV(<< <<Str(<<"p","r","o","j","e","c","t","_","k","e","y">>), project_key>>, <<Str(<<"a","g","e","n","t","_","n","a","m","e">>), agent_name>>,
           <<Str(<<"m","e","s","s","a","g","e","_","i","d">>), message_id>> >>)

\* reserve_file_paths, lines 284-290
ReserveArguments(project_key, agent_name, paths, ttl_seconds, exclusive) ==
  DictV(<< <<Str(<<"p","r","o","j","e","c","t","_","k","e","y">>), project_key>>, <<Str(<<"a","g","e","n","t","_","n","a","m","e">>), agent_name>>,
           <<Str(<<"p","a","t","h","s">>), paths>>, <<Str(<<"t","t","l","_","s","e","c","o","n","d","s">>), ttl_seconds>>,
           <<Str(<<"e","x","c","l","u","s","i","v","e">>), exclusive>> >>)

\* release_file_reservations, lines 320-323
ReleaseArguments(project_key, agent_name) ==
  DictV(<< <<Str(<<"p","r","o","j","e","c","t","_","k","e","y">>), project_key>>, <<Str(<<"a","g","e","n","t","_","n","a","m","e">>), agent_name>> >>)

\* the default values of the optional parameters
DefaultLimit == 50
DefaultTtlSeconds == 3600

\* the call a wrapper makes on the transport: mcp_client.call_tool("call_tool",
\* {"tool_name": ..., "arguments": ...})
ToolCall(tool_name, arguments) == [tool_name |-> tool_name, arguments |-> arguments]

\* CallsMade with one retry after a transport failure
CallsWithRetry(tool_name, arguments, transport_outcome) ==
  IF arguments.kind = "raise" THEN <<>>
  ELSE IF transport_outcome.kind = "raise"
    THEN <<ToolCall(tool_name, arguments.value), ToolCall(tool_name, arguments.value)>>
  ELSE <<ToolCall(tool_name, arguments.value)>>

\* the calls one wrapper call makes on the transport, whatever the transport
\* does: none when building the arguments raised, else the one awaited call
CallsMade(tool_name, arguments, transport_outcome) ==
  IF arguments.kind = "raise" THEN <<>> ELSE <<ToolCall(tool_name, arguments.value)>>

\* result = _extract_structured_content(response), response being what the
\* awaited call returned; a call that raised leaves the try block at once
Normalized(called) ==
  IF called.kind = "raise" THEN called ELSE _extract_structured_content(called.value)

\* Completed with no except clause: the exception leaves the wrapper
CompletedUncaught(outcome) ==
  IF outcome.kind = "raise" THEN outcome
  ELSE Return([success |-> TRUE, response |-> outcome.value])

\* return {"success": True, "response": result}, or the except clause:
\* return {"success": False, "error": str(e)}
Completed(outcome) ==
  IF outcome.kind = "raise"
    THEN Return([success |-> FALSE, error |-> StrOfError(outcome)])
    ELSE Return([success |-> TRUE, response |-> outcome.value])

\* the try block of a wrapper: arguments is the outcome of building them,
\* transport_outcome what call_tool does when awaited
Wrapper(arguments, transport_outcome) ==
  IF arguments.kind = "raise" THEN Completed(arguments)
  ELSE Completed(Normalized(transport_outcome))

(***************************************************************************)
(* orchestrator: Orchestrator.delegate_task, which sends one               *)
(* task_assignment through send_message.                                   *)
(***************************************************************************)
\* an f-string: the prefix followed by the text s
Concat(prefix, s) ==
  IF "v" \in DOMAIN s THEN Str(prefix \o s.v)
  ELSE [t |-> "str", prefix |-> prefix, then |-> s]

\* the texts of delegate_task
DelegateLit ==
  [failed |-> <<"M","C","P"," ","A","g","e","n","t"," ","M","a","i","l"," ","d","e","l","e","g","a","t","i","o","n"," ","f","a","i","l","e","d",":"," ">>,
   error |-> <<"M","C","P"," ","A","g","e","n","t"," ","M","a","i","l"," ","d","e","l","e","g","a","t","i","o","n"," ","e","r","r","o","r",":"," ">>,
   message_id |-> Str(<<"m","e","s","s","a","g","e","_","i","d">>),
   unknown |-> Str(<<"u","n","k","n","o","w","n">>),
   high |-> Str(<<"h","i","g","h">>),
   normal |-> Str(<<"n","o","r","m","a","l">>)]

\* priority: 0=urgent, 1=high, 2=normal, 3=low
Priorities == 0..3
\* estimated_minutes: int = 60
DefaultEstimatedMinutes == 60

\* "high" if priority <= 1 else "normal"
PriorityName(priority) == IF priority <= 1 THEN DelegateLit.high ELSE DelegateLit.normal

\* x or [] keeping a falsy x
OrItself(x) == x

\* x or []
OrEmptyList(x) == IF Truthy(x) THEN x ELSE ListV(<<>>)

\* lines 228-241: the message content
MessageContent(task_id, description, file_patterns, priority, dependencies, estimated_minutes, metadata) ==
  DictV(<< <<Str(<<"t","y","p","e">>), Str(<<"t","a","s","k","_","a","s","s","i","g","n","m","e","n","t">>)>>,
           <<Str(<<"t","a","s","k","_","i","d">>), task_id>>,
           <<Str(<<"d","e","s","c","r","i","p","t","i","o","n">>), description>>,
           <<Str(<<"f","i","l","e","_","p","a","t","t","e","r","n","s">>), OrEmptyList(file_patterns)>>,
           <<Str(<<"p","r","i","o","r","i","t","y">>), PriorityName(priority)>>,
           <<Str(<<"p","r","i","o","r","i","t","y","_","v","a","l","u","e">>), IntV(priority)>>,
           <<Str(<<"e","s","t","i","m","a","t","e","d","_","d","u","r","a","t","i","o","n","_","m","i","n","u","t","e","s">>), IntV(estimated_minutes)>>,
           <<Str(<<"d","e","p","e","n","d","e","n","c","i","e","s">>), OrEmptyList(dependencies)>> >>
        \o (IF Truthy(metadata) THEN << <<Str(<<"m","e","t","a","d","a","t","a">>), metadata>> >> ELSE <<>>))

\* lines 254-263: the success result, or the AttributeError of response.get
\* on a response that is no dict
Delegated(task_id, droid_name, response) ==
  IF response.t # "dict" THEN Raise("AttributeError")
  ELSE Return([success |-> TRUE, task_id |-> task_id, droid_name |-> droid_name,
               error |-> None,
               message_id |-> DictGet(response, DelegateLit.message_id, DelegateLit.unknown)])

\* lines 253-269: what the try block does with send_result
AfterSend(task_id, droid_name, send_result) ==
  IF send_result.success THEN Delegated(task_id, droid_name, send_result.response)
  ELSE RaiseWith("RuntimeError", Concat(DelegateLit.failed, send_result.error))

\* lines 271-275: every Exception of the try block, the RuntimeError of line
\* 269 included, is raised again as a RuntimeError
ExceptDelegation(outcome) ==
  IF outcome.kind = "raise"
    THEN RaiseWith("RuntimeError", Concat(DelegateLit.error, StrOfError(outcome)))
    ELSE outcome

\* Orchestrator.delegate_task, sent being what send_message returned
DelegateOutcome(task_id, droid_name, sent) ==
  ExceptDelegation(IF sent.kind = "raise" THEN sent
                   ELSE AfterSend(task_id, droid_name, sent.value))

\* the texts of Orchestrator.__init__ and initialize
InitializeLit ==
  [required |-> Str(<<"M","C","P"," ","c","l","i","e","n","t"," ","i","s"," ","r","e","q","u","i","r","e","d"," ","f","o","r"," ","O","r","c","h","e","s","t","r","a","t","o","r","."," ","M","C","P"," ","A","g","e","n","t"," ","M","a","i","l"," ","m","u","s","t"," ","b","e"," ","c","o","n","f","i","g","u","r","e","d"," ","a","n","d"," ","r","u","n","n","i","n","g",".">>),
   project_key_error |-> <<"E","r","r","o","r"," ","g","e","t","t","i","n","g"," ","p","r","o","j","e","c","t"," ","k","e","y",":"," ">>,
   registration_failed |-> <<"M","C","P"," ","A","g","e","n","t"," ","M","a","i","l"," ","r","e","g","i","s","t","r","a","t","i","o","n"," ","f","a","i","l","e","d",":"," ">>,
   mail_error |-> <<"M","C","P"," ","A","g","e","n","t"," ","M","a","i","l"," ","e","r","r","o","r",":"," ">>,
   default_description |-> Str(<<"T","a","s","k"," ","c","o","o","r","d","i","n","a","t","i","o","n"," ","a","n","d"," ","d","e","l","e","g","a","t","i","o","n"," ","t","o"," ","s","p","e","c","i","a","l","i","s","t"," ","d","r","o","i","d","s">>),
   id |-> Str(<<"i","d">>),
   name |-> Str(<<"n","a","m","e">>)]

\* Orchestrator.__init__(mcp_client, model), lines 91-99: Return(the fields of
\* the object) or the ValueError of line 92
Orchestrator(mcp_client, model) ==
  IF mcp_client = None THEN RaiseWith("ValueError", InitializeLit.required)
  ELSE Return([mcp_client |-> mcp_client,
               model |-> model,
               project_key |-> None,
               agent_name |-> Caller.orchestrator,
               registration_result |-> None])

\* Python 3.10+, line 123
MinPython == <<3, 10>>

\* python_version < least, as tuples compare
VersionBelow(python_version, least) ==
  \/ python_version[1] < least[1]
  \/ python_version[1] = least[1] /\ python_version[2] < least[2]

\* one call of initialize: the object as it leaves it, the calls made on the
\* transport, and what it returns or raises
Initialized(self, calls, outcome) == [self |-> self, calls |-> calls, outcome |-> outcome]

\* InitializeExcept returning the failure instead of raising
InitializeReturnsFailure(self, calls, raised) ==
  Initialized(self, calls,
              Return([success |-> FALSE, mcp_registered |-> FALSE,
                      error |-> Concat(InitializeLit.mail_error, StrOfError(raised))]))

\* lines 175-180: every Exception of the try block, the RuntimeError of line
\* 173 included, is raised again as a RuntimeError
InitializeExcept(self, calls, raised) ==
  Initialized(self, calls,
              RaiseWith("RuntimeError", Concat(InitializeLit.mail_error, StrOfError(raised))))

\* lines 152-173 on what register_agent returned: the response is stored before
\* its get() is called, which a response that is no dict does not have
AfterRegistration(self, calls, registration_result) ==
  IF registration_result.success
    THEN IF registration_result.response.t # "dict"
           THEN InitializeExcept([self EXCEPT !.registration_result = registration_result.response],
                                 calls, Raise("AttributeError"))
         ELSE Initialized([self EXCEPT !.registration_result = registration_result.response],
                          calls,
                          Return([success |-> TRUE,
                                  mcp_registered |-> TRUE,
                                  error |-> None,
                                  agent_id |-> DictGet(registration_result.response,
                                                       InitializeLit.id, DelegateLit.unknown),
                                  agent_name |-> DictGet(registration_result.response,
                                                         InitializeLit.name, self.agent_name)]))
  ELSE InitializeExcept(self, calls,
                        RaiseWith("RuntimeError",
                                  Concat(InitializeLit.registration_failed,
                                         registration_result.error)))

\* the arguments register_agent builds for initialize, lines 144-150
InitializeArguments(self, task_description) ==
  Return(RegisterParams(self.project_key, self.agent_name, self.model,
                        IF Truthy(task_description) THEN task_description
                        ELSE InitializeLit.default_description))

\* lines 141-180, the project key stored: the call of register_agent and what
\* follows it
Register(self, task_description, transport_outcome) ==
  AfterRegistration(self,
                    CallsMade("register_agent", InitializeArguments(self, task_description),
                              transport_outcome),
                    Wrapper(InitializeArguments(self, task_description), transport_outcome).value)

\* Orchestrator.initialize(task_description), lines 115-180, on the version of
\* the interpreter, what get_project_key() does and what the transport does
initialize(self, task_description, python_version, got_project_key, transport_outcome) ==
  IF VersionBelow(python_version, MinPython)
    THEN Initialized(self, <<>>, RaiseWith("RuntimeError", [t |-> "str", python_required |-> python_version]))
  ELSE IF got_project_key.kind = "raise"
    THEN Initialized(self, <<>>,
                     RaiseWith("RuntimeError",
                               Concat(InitializeLit.project_key_error, StrOfError(got_project_key))))
  ELSE Register([self EXCEPT !.project_key = got_project_key.value], task_description,
                transport_outcome)

(***************************************************************************)
(* handoff_protocol: the message envelopes.  An envelope is a dict in the  *)
(* order its keys are written.  The clock and uuid.uuid4() are outside the *)
(* program: the timestamp is named by the instant read, and the k-th draw  *)
(* of uuid4 by k, a value no earlier draw yielded (uuid4 values are taken  *)
(* not to repeat).                                                         *)
(***************************************************************************)
\* MESSAGE_TYPE_* and MESSAGE_VERSION, lines 33-42
MESSAGE ==
  [task_assignment |-> Str(<<"t","a","s","k","_","a","s","s","i","g","n","m","e","n","t">>),
   task_completion |-> Str(<<"t","a","s","k","_","c","o","m","p","l","e","t","i","o","n">>),
   error_report |-> Str(<<"e","r","r","o","r","_","r","e","p","o","r","t">>),
   status_update |-> Str(<<"s","t","a","t","u","s","_","u","p","d","a","t","e">>),
   VERSION |-> Str(<<"1",".","0",".","0">>)]

\* generate_message_id(): str(uuid.uuid4()), draws values having been drawn before
generate_message_id_again(drawn) == [t |-> "str", uuid4 |-> 1]

generate_message_id(drawn) == [t |-> "str", uuid4 |-> drawn + 1]

\* get_utc_timestamp(): datetime.utcnow().isoformat() + 'Z' at the instant now
get_utc_timestamp(now) == [t |-> "str", utc_iso_z |-> now]

\* create_base_message with its two arguments taken in the other order
create_base_message_swapped(sender_id, message_type, timestamp, message_id) ==
  DictV(<< <<Str(<<"v","e","r","s","i","o","n">>), MESSAGE.VERSION>>,
           <<Str(<<"t","i","m","e","s","t","a","m","p">>), timestamp>>,
           <<Str(<<"s","e","n","d","e","r","_","i","d">>), message_type>>,
           <<Str(<<"m","e","s","s","a","g","e","_","i","d">>), message_id>>,
           <<Str(<<"t","y","p","e">>), sender_id>> >>)

\* create_base_message(sender_id, message_type), with the timestamp and the
\* message id it obtains
create_base_message(sender_id, message_type, timestamp, message_id) ==
  DictV(<< <<Str(<<"v","e","r","s","i","o","n">>), MESSAGE.VERSION>>,
           <<Str(<<"t","i","m","e","s","t","a","m","p">>), timestamp>>,
           <<Str(<<"s","e","n","d","e","r","_","i","d">>), sender_id>>,
           <<Str(<<"m","e","s","s","a","g","e","_","i","d">>), message_id>>,
           <<Str(<<"t","y","p","e">>), message_type>> >>)

\* Optional writing the key whatever the value
OptionalAlways(key, x) == << <<key, x>> >>

\* if x: message[key] = x
Optional(key, x) == IF Truthy(x) THEN << <<key, x>> >> ELSE <<>>

\* create_task_assignment_message(**a), lines 97-120
create_task_assignment_message(a, timestamp, message_id) ==
  DictV(create_base_message(a.sender_id, MESSAGE.task_assignment, timestamp, message_id).v
        \o << <<Str(<<"t","a","s","k","_","i","d">>), a.task_id>>,
              <<Str(<<"d","e","s","c","r","i","p","t","i","o","n">>), a.description>>,
              <<Str(<<"f","i","l","e","_","p","a","t","t","e","r","n","s">>), a.file_patterns>>,
              <<Str(<<"p","r","i","o","r","i","t","y">>), a.priority>>,
              <<Str(<<"p","r","i","o","r","i","t","y","_","v","a","l","u","e">>), a.priority_value>> >>
        \o Optional(Str(<<"s","p","e","c","i","f","i","c","a","t","i","o","n">>), a.specification)
        \o Optional(Str(<<"d","e","p","e","n","d","e","n","c","i","e","s">>), a.dependencies)
        \o Optional(Str(<<"e","s","t","i","m","a","t","e","d","_","d","u","r","a","t","i","o","n","_","m","i","n","u","t","e","s">>), a.estimated_duration_minutes)
        \o Optional(Str(<<"d","e","a","d","l","i","n","e">>), a.deadline)
        \o Optional(Str(<<"m","e","t","a","d","a","t","a">>), a.metadata))

\* create_task_completion_message(**a), lines 155-178
create_task_completion_message(a, timestamp, message_id) ==
  DictV(create_base_message(a.sender_id, MESSAGE.task_completion, timestamp, message_id).v
        \o << <<Str(<<"t","a","s","k","_","i","d">>), a.task_id>>,
              <<Str(<<"s","t","a","t","u","s">>), a.status>>,
              <<Str(<<"c","o","m","p","l","e","t","i","o","n","_","s","u","m","m","a","r","y">>), a.completion_summary>>,
              <<Str(<<"f","i","l","e","s","_","m","o","d","i","f","i","e","d">>), OrEmptyList(a.files_modified)>>,
              <<Str(<<"e","r","r","o","r","s","_","e","n","c","o","u","n","t","e","r","e","d">>), OrEmptyList(a.errors_encountered)>> >>
        \o Optional(Str(<<"t","e","s","t","_","r","e","s","u","l","t","s">>), a.test_results)
        \o Optional(Str(<<"w","a","r","n","i","n","g","s">>), a.warnings)
        \o Optional(Str(<<"t","i","m","e","_","s","p","e","n","t","_","m","i","n","u","t","e","s">>), a.time_spent_minutes)
        \o Optional(Str(<<"n","e","x","t","_","t","a","s","k","s">>), a.next_tasks)
        \o Optional(Str(<<"m","e","t","a","d","a","t","a">>), a.metadata))

\* create_error_report_message(**a), lines 217-251
create_error_report_message(a, timestamp, message_id) ==
  DictV(create_base_message(a.sender_id, MESSAGE.error_report, timestamp, message_id).v
        \o << <<Str(<<"t","a","s","k","_","i","d">>), a.task_id>>,
              <<Str(<<"s","e","v","e","r","i","t","y">>), a.severity>>,
              <<Str(<<"e","r","r","o","r">>), DictV(<< <<Str(<<"c","o","d","e">>), a.error_code>>,
                                   <<Str(<<"m","e","s","s","a","g","e">>), a.error_message>> >>
                                \o Optional(Str(<<"s","t","a","c","k","_","t","r","a","c","e">>), a.stack_trace)
                                \o Optional(Str(<<"c","o","n","t","e","x","t">>), a.error_context))>>,
              <<Str(<<"n","e","e","d","s","_","h","u","m","a","n","_","i","n","t","e","r","v","e","n","t","i","o","n">>), a.needs_human_intervention>> >>
        \o Optional(Str(<<"a","t","t","e","m","p","t","e","d","_","s","o","l","u","t","i","o","n","s">>), a.attempted_solutions)
        \o Optional(Str(<<"r","e","p","r","o","d","u","c","t","i","o","n","_","s","t","e","p","s">>), a.reproduction_steps)
        \o Optional(Str(<<"s","u","g","g","e","s","t","e","d","_","a","c","t","i","o","n","s">>), a.suggested_actions)
        \o Optional(Str(<<"i","m","p","a","c","t">>), a.impact)
        \o Optional(Str(<<"a","t","t","a","c","h","m","e","n","t","s">>), a.attachments))

\* create_status_update_message(**a), lines 282-305
create_status_update_message(a, timestamp, message_id) ==
  DictV(create_base_message(a.sender_id, MESSAGE.status_update, timestamp, message_id).v
        \o << <<Str(<<"t","a","s","k","_","i","d">>), a.task_id>>,
              <<Str(<<"u","p","d","a","t","e","_","t","y","p","e">>), a.update_type>>,
              <<Str(<<"s","t","a","t","u","s","_","s","u","m","m","a","r","y">>), a.status_summary>> >>
        \o Optional(Str(<<"p","r","o","g","r","e","s","s">>), a.progress)
        \o Optional(Str(<<"m","e","t","r","i","c","s">>), a.metrics)
        \o << <<Str(<<"b","l","o","c","k","e","r","s">>), OrEmptyList(a.blockers)>> >>
        \o Optional(Str(<<"n","e","x","t","_","m","i","l","e","s","t","o","n","e">>), a.next_milestone)
        \o Optional(Str(<<"m","e","t","a","d","a","t","a">>), a.metadata))

\* x > n, for an x that should be an int: Raise when it is None
GreaterThan(x, n) ==
  IF x.t = "int" THEN Return(x.v > n) ELSE Raise("TypeError")

\* the threshold of delegate_task: estimated_minutes > 120 is high priority
HighPriorityMinutes == 120

\* delegate_task(**a), lines 340-362: Return(the envelope built), or Raise when
\* the arguments of the constructor cannot be evaluated
delegate_task(a, timestamp, message_id) ==
  IF GreaterThan(a.estimated_minutes, HighPriorityMinutes).kind = "raise"
    THEN GreaterThan(a.estimated_minutes, HighPriorityMinutes)
  ELSE Return(create_task_assignment_message(
         [sender_id |-> a.orchestrator_name,
          task_id |-> a.task_id,
          description |-> a.description,
          file_patterns |-> a.file_patterns,
          priority |-> IF a.estimated_minutes.v > HighPriorityMinutes
                         THEN Str(<<"h","i","g","h">>) ELSE Str(<<"n","o","r","m","a","l">>),
          priority_value |-> IF a.estimated_minutes.v > HighPriorityMinutes
                               THEN IntV(1) ELSE IntV(2),
          specification |-> None,
          dependencies |-> None,
          estimated_duration_minutes |-> a.estimated_minutes,
          deadline |-> None,
          metadata |-> DictV(<< <<Str(<<"l","a","b","e","l","s">>), a.specialist_tags>>,
                                <<Str(<<"a","g","e","n","t","_","r","o","l","e">>), Str(<<"i","m","p","l","e","m","e","n","t","a","t","i","o","n">>)>> >>)],
         timestamp, message_id))

\* the test_results report_task_completion supplies when given none
NoTestResults ==
  DictV(<< <<Str(<<"u","n","i","t","_","t","e","s","t","s">>), DictV(<< <<Str(<<"t","o","t","a","l">>), IntV(0)>>, <<Str(<<"p","a","s","s","e","d">>), IntV(0)>>,
                                      <<Str(<<"f","a","i","l","e","d">>), IntV(0)>> >>)>>,
           <<Str(<<"i","n","t","e","g","r","a","t","i","o","n","_","t","e","s","t","s">>), DictV(<< <<Str(<<"t","o","t","a","l">>), IntV(0)>>, <<Str(<<"p","a","s","s","e","d">>), IntV(0)>>,
                                             <<Str(<<"f","a","i","l","e","d">>), IntV(0)>> >>)>> >>)

\* report_task_completion(**a), lines 389-408
report_task_completion(a, timestamp, message_id) ==
  Return(create_task_completion_message(
    [sender_id |-> a.agent_name,
     task_id |-> a.task_id,
     status |-> Str(<<"c","o","m","p","l","e","t","e">>),
     completion_summary |-> a.completion_summary,
     files_modified |-> a.files_modified,
     test_results |-> IF Truthy(a.test_results) THEN a.test_results
                      ELSE NoTestResults,
     errors_encountered |-> None,
     warnings |-> None,
     time_spent_minutes |-> a.time_spent_minutes,
     next_tasks |-> None,
     metadata |-> None],
    timestamp, message_id))

\* report_error(**a), lines 433-448
report_error(a, timestamp, message_id) ==
  Return(create_error_report_message(
    [sender_id |-> a.agent_name,
     task_id |-> a.task_id,
     severity |-> a.severity,
     error_code |-> a.error_code,
     error_message |-> a.error_message,
     stack_trace |-> None,
     error_context |-> None,
     attempted_solutions |-> None,
     reproduction_steps |-> None,
     needs_human_intervention |-> a.needs_human_intervention,
     suggested_actions |-> None,
     impact |-> None,
     attachments |-> None],
    timestamp, message_id))

\* what a high-level helper returns: (True, message["message_id"]), or
\* (False, None) from its except clause
HelperReturn(built, drawn) ==
  IF built.kind = "raise" THEN <<FALSE, None>>
  ELSE <<TRUE, GetItem(built.value, Str(<<"m","e","s","s","a","g","e","_","i","d">>))>>

(***************************************************************************)
(* specialized_agents: ImplementationAgent.process_task, the receiver of a *)
(* task assignment.  The assignment is a dict, a decoded message.          *)
(***************************************************************************)
\* the texts and the fixed arguments of process_task
AgentLit ==
  [agent_name |-> Str(<<"i","m","p","l","e","m","e","n","t","a","t","i","o","n","-","a","g","e","n","t">>),
   task_id |-> Str(<<"t","a","s","k","_","i","d">>),
   description |-> Str(<<"d","e","s","c","r","i","p","t","i","o","n">>),
   file_patterns |-> Str(<<"f","i","l","e","_","p","a","t","t","e","r","n","s">>),
   unknown |-> Str(<<"u","n","k","n","o","w","n">>),
   complete |-> Str(<<"c","o","m","p","l","e","t","e">>),
   completed |-> <<"I","m","p","l","e","m","e","n","t","a","t","i","o","n"," ","c","o","m","p","l","e","t","e","d",":"," ">>,
   failed |-> <<"I","m","p","l","e","m","e","n","t","a","t","i","o","n"," ","f","a","i","l","e","d",":"," ">>,
   high |-> Str(<<"h","i","g","h">>),
   error_code |-> Str(<<"I","M","P","L","E","M","E","N","T","A","T","I","O","N","_","E","R","R","O","R">>),
   test_results |-> DictV(<< <<Str(<<"u","n","i","t","_","t","e","s","t","s">>), DictV(<< <<Str(<<"t","o","t","a","l">>), IntV(5)>>, <<Str(<<"p","a","s","s","e","d">>), IntV(5)>>,
                                                      <<Str(<<"f","a","i","l","e","d">>), IntV(0)>>, <<Str(<<"c","o","v","e","r","a","g","e">>), IntV(85)>> >>)>> >>)]

\* list(x): the elements of a list, the characters of a str, the keys of a dict
ListOfIterable(x) ==
  CASE x.t = "list" -> Return(x)
    [] x.t = "str" /\ "v" \in DOMAIN x -> Return(ListV([i \in 1..Len(x.v) |-> Str(<<x.v[i]>>)]))
    [] x.t = "dict" -> Return(ListV([i \in 1..Len(x.v) |-> x.v[i][1]]))
    [] OTHER -> Raise("TypeError")

\* one call of process_task: the pair it returns, and the constructor it
\* called with its arguments
Processed(success, constructor, arguments, report) ==
  [result |-> <<success, report>>, constructor |-> constructor, arguments |-> arguments]

\* lines 195-202: the except clause, which reports the error and returns False
ProcessExcept(agent_name, current_task, raised, timestamp, message_id) ==
  LET a == [sender_id |-> agent_name,
            task_id |-> DictGet(current_task, AgentLit.task_id, AgentLit.unknown),
            severity |-> AgentLit.high,
            error_code |-> AgentLit.error_code,
            error_message |-> Concat(AgentLit.failed, StrOfError(raised)),
            stack_trace |-> None, error_context |-> None, attempted_solutions |-> None,
            reproduction_steps |-> None, needs_human_intervention |-> BoolV(TRUE),
            suggested_actions |-> None, impact |-> None, attachments |-> None]
  IN Processed(FALSE, "create_error_report_message", a,
               create_error_report_message(a, timestamp, message_id))

\* lines 179-194: the completion report of the work, marked complete
ProcessComplete(agent_name, current_task, description, files_modified, time_spent, timestamp, message_id) ==
  LET a == [sender_id |-> agent_name,
            task_id |-> DictGet(current_task, AgentLit.task_id, AgentLit.unknown),
            status |-> AgentLit.complete,
            completion_summary |-> Concat(AgentLit.completed, StrOf(description)),
            files_modified |-> files_modified,
            test_results |-> AgentLit.test_results,
            errors_encountered |-> None, warnings |-> None,
            time_spent_minutes |-> IntV(time_spent),
            next_tasks |-> None, metadata |-> None]
  IN Processed(TRUE, "create_task_completion_message", a,
               create_task_completion_message(a, timestamp, message_id))

\* ImplementationAgent.process_task(task_assignment), lines 160-202: the
\* fields are read with defaults and nothing else of the assignment is looked
\* at; time_spent is the whole minutes between start_task and the report
process_task(agent_name, task_assignment, time_spent, timestamp, message_id) ==
  LET file_patterns == DictGet(task_assignment, AgentLit.file_patterns, ListV(<<>>))
  IN IF ListOfIterable(file_patterns).kind = "raise"
       THEN ProcessExcept(agent_name, task_assignment, ListOfIterable(file_patterns),
                          timestamp, message_id)
     ELSE ProcessComplete(agent_name, task_assignment,
                          DictGet(task_assignment, AgentLit.description, Str(<<>>)),
                          ListOfIterable(file_patterns).value, time_spent, timestamp, message_id)

(***************************************************************************)
(* EnhancedOrchestrator.route_task and route_batch.  `bd show <id> --json` *)
(* is outside the program: a run is Raise (bd missing, or a non-zero exit  *)
(* under check=True) or Return(the text bd wrote to stdout).  The task     *)
(* objects bd writes have strings for title, description and notes.        *)
(***************************************************************************)
\* the texts of route_task, the fixed arguments of its message, and the keys of
\* a task object
RouteLit ==
  [no_agent |-> <<"N","o"," ","s","u","i","t","a","b","l","e"," ","a","g","e","n","t"," ",
                  "f","o","u","n","d"," ","f","o","r"," ","t","a","s","k"," ">>,
   task |-> <<"T","a","s","k"," ">>,
   routed_to |-> <<" ","r","o","u","t","e","d"," ","t","o"," ">>,
   error_routing |-> <<"E","r","r","o","r"," ","r","o","u","t","i","n","g"," ",
                       "t","a","s","k"," ">>,
   colon |-> <<":"," ">>,
   orchestrator |-> Str(<<"o","r","c","h","e","s","t","r","a","t","o","r">>),
   file_patterns |-> ListV(<<Str(<<"*","*","/","*">>)>>),
   priority |-> Str(<<"h","i","g","h">>),
   priority_value |-> IntV(1),
   keys |-> [title |-> Str(<<"t","i","t","l","e">>), description |-> Str(<<"d","e","s","c","r","i","p","t","i","o","n">>), notes |-> Str(<<"n","o","t","e","s">>)]]

\* lines 239-240: a non-empty list stands for its first element
FirstIfList(task_data) ==
  IF task_data.t = "list" /\ Len(task_data.v) > 0 THEN task_data.v[1] ELSE task_data

\* the task record of a decoded task object: the keys title, description and
\* notes it has, with their texts
TaskRecord(d) ==
  [k \in {key \in DOMAIN RouteLit.keys : RouteLit.keys[key] \in Keys(d)} |->
     GetItem(d, RouteLit.keys[k]).v]

\* list(tags): the elements of the set in the order the interpreter gives
\* them, named by the set
ListOfSet(tags) == [t |-> "list", of_set |-> tags]

\* self.agent_registry.get(assigned_agent, {}).get('capabilities', [])
RegistryCapabilities(agent_name) ==
  LET at == {i \in 1..Len(agent_registry) : agent_registry[i].name = agent_name}
  IN IF at = {} THEN ListV(<<>>)
     ELSE ListV(agent_registry[CHOOSE i \in at : TRUE].capabilities)

\* what one call of route_task leaves: its outcome, Return(the triple) or Raise,
\* the task record, tags and agent it computed on the way (Idle when not
\* reached), and the message it built (Idle when none)
RouteCall(task_id, result, task_data, specialist_tags, assigned_agent, built) ==
  [task_id |-> task_id, result |-> result, task_data |-> task_data,
   specialist_tags |-> specialist_tags, assigned_agent |-> assigned_agent,
   message |-> built]

\* RouteExcept letting the exception out of route_task
RouteUncaught(task_id, raised, task_data, specialist_tags) ==
  RouteCall(task_id, raised, task_data, specialist_tags, Idle, Idle)

\* lines 274-276: except Exception as e
RouteExcept(task_id, raised, task_data, specialist_tags) ==
  RouteCall(task_id,
            Return(<<FALSE,
                     Concat(RouteLit.error_routing \o task_id.v \o RouteLit.colon,
                            StrOfError(raised)),
                     None>>),
            task_data, specialist_tags, Idle, Idle)

\* lines 252-272, with the tags and the agent of lines 247 and 250
RouteMatched(task_id, orchestrator_name, task_data, specialist_tags, assigned_agent, timestamp, message_id) ==
  IF ~Truthy(assigned_agent)
    THEN RouteCall(task_id,
                   Return(<<FALSE, Str(RouteLit.no_agent \o task_id.v), None>>),
                   task_data, Return(specialist_tags), Return(assigned_agent), Idle)
  ELSE RouteCall(task_id,
                 Return(<<TRUE,
                          Str(RouteLit.task \o task_id.v \o RouteLit.routed_to
                              \o assigned_agent.v),
                          assigned_agent>>),
                 task_data, Return(specialist_tags), Return(assigned_agent),
                 create_task_assignment_message(
                   [sender_id |-> orchestrator_name,
                    task_id |-> task_id,
                    description |-> Str(TaskGet(task_data, "description")),
                    file_patterns |-> RouteLit.file_patterns,
                    priority |-> RouteLit.priority,
                    priority_value |-> RouteLit.priority_value,
                    specification |-> None,
                    dependencies |-> None,
                    estimated_duration_minutes |-> None,
                    deadline |-> None,
                    metadata |->
                      DictV(<< <<Str(<<"l","a","b","e","l","s">>), ListOfSet(specialist_tags)>>,
                               <<Str(<<"a","s","s","i","g","n","e","d","_","a","g","e","n","t">>), assigned_agent>>,
                               <<Str(<<"a","g","e","n","t","_","c","a","p","a","b","i","l","i","t","i","e","s">>),
                                 RegistryCapabilities(assigned_agent)>> >>)],
                   timestamp, message_id))

\* lines 243-250 on the task record: the two calls, either of which may raise
RouteRecord(task_id, orchestrator_name, task_data, specialist_tags, timestamp, message_id) ==
  IF specialist_tags.kind = "raise"
    THEN RouteExcept(task_id, specialist_tags, task_data, specialist_tags)
  ELSE RouteMatched(task_id, orchestrator_name, task_data, specialist_tags.value,
                    MatchTags(specialist_tags).value, timestamp, message_id)

\* lines 237-245 on what json.loads gave: task_data.get raises on a value that
\* is no dict
RouteLoaded(task_id, orchestrator_name, loaded, timestamp, message_id) ==
  IF loaded.kind = "raise" THEN RouteExcept(task_id, loaded, Idle, Idle)
  ELSE IF FirstIfList(loaded.value).t # "dict"
    THEN RouteExcept(task_id, Raise("AttributeError"), Idle, Idle)
  ELSE RouteRecord(task_id, orchestrator_name, TaskRecord(FirstIfList(loaded.value)),
                   extract_specialist_tags(TaskRecord(FirstIfList(loaded.value))),
                   timestamp, message_id)

\* route_task(task_id, orchestrator_name), ran the outcome of subprocess.run
route_task(task_id, orchestrator_name, ran, timestamp, message_id) ==
  RouteLoaded(task_id, orchestrator_name,
              IF ran.kind = "raise" THEN ran ELSE json_loads(ran.value.v),
              timestamp, message_id)

\* SetItem adding a pair whether or not the key is there
SetItemAppend(d, k, v) == DictV(Append(d.v, <<k, v>>))

\* d[k] = v
SetItem(d, k, v) ==
  IF k \in Keys(d)
    THEN DictV([i \in 1..Len(d.v) |-> IF d.v[i][1] = k THEN <<k, v>> ELSE d.v[i]])
    ELSE DictV(Append(d.v, <<k, v>>))

RECURSIVE JsonEscapeFrom(_, _)
\* the characters of s from position i on, as JSON writes them inside a string:
\* a quote or a backslash is preceded by a backslash
JsonEscapeFrom(s, i) ==
  IF i > Len(s) THEN <<>>
  ELSE (IF s[i] \in {"\"", "\\"} THEN <<"\\", s[i]>> ELSE <<s[i]>>)
       \o JsonEscapeFrom(s, i + 1)

\* one member of a JSON object: "key": "text"
JsonMember(key, text) ==
  <<"\"">> \o key \o <<"\"", ":", " ", "\"">> \o JsonEscapeFrom(text, 1) \o <<"\"">>

\* what `bd show <id> --json` prints for a task record: a list of one object
\* with the fields the record has
BdShow(task_data) ==
  LET title == JsonMember(RouteLit.keys.title.v, task_data["title"])
      description == JsonMember(RouteLit.keys.description.v, task_data["description"])
      notes == IF "notes" \in DOMAIN task_data
                 THEN <<",", " ">> \o JsonMember(RouteLit.keys.notes.v, task_data["notes"])
                 ELSE <<>>
  IN Return(Str(<<"[", "{">> \o title \o <<",", " ">> \o description \o notes
                \o <<"}", "]">>))

RECURSIVE RouteEach(_, _, _, _)
\* the calls of route_task the loop of route_batch makes, lines 296-297: one
\* for each element of task_ids, in order; drawn counts the uuids drawn so far
RouteEach(task_ids, runs, now, drawn) ==
  IF task_ids = <<>> THEN <<>>
  ELSE LET call == route_task(Head(task_ids), RouteLit.orchestrator,
                              runs[Head(task_ids)], get_utc_timestamp(now),
                              generate_message_id(drawn))
       IN <<call>> \o RouteEach(Tail(task_ids), runs, now,
                                IF call.message = Idle THEN drawn ELSE drawn + 1)

RECURSIVE Tally(_, _)
\* Tally stopping at the first call that failed
TallyUntilFailure(report, calls) ==
  IF calls = <<>> THEN report
  ELSE IF calls[1].result.value[1]
    THEN Tally([report EXCEPT
                  !.successful_routes = @ + 1,
                  !.assignments = SetItem(@, calls[1].task_id, calls[1].result.value[3])],
               Tail(calls))
  ELSE [report EXCEPT
          !.failed_routes = @ + 1,
          !.errors = Append(@, [task_id |-> calls[1].task_id,
                                error |-> calls[1].result.value[2]])]

\* lines 299-307: the report after the calls still to be counted
Tally(report, calls) ==
  IF calls = <<>> THEN report
  ELSE IF calls[1].result.value[1]
    THEN Tally([report EXCEPT
                  !.successful_routes = @ + 1,
                  !.assignments = SetItem(@, calls[1].task_id, calls[1].result.value[3])],
               Tail(calls))
  ELSE Tally([report EXCEPT
                !.failed_routes = @ + 1,
                !.errors = Append(@, [task_id |-> calls[1].task_id,
                                      error |-> calls[1].result.value[2]])],
             Tail(calls))

\* route_batch(task_ids), lines 288-309, on the calls of route_task it made:
\* Return(the report); an exception of a call would propagate
route_batch(task_ids, calls) ==
  IF \E i \in 1..Len(calls) : calls[i].result.kind = "raise"
    THEN calls[CHOOSE i \in 1..Len(calls) :
                 /\ calls[i].result.kind = "raise"
                 /\ \A j \in 1..(i - 1) : calls[j].result.kind = "return"].result
  ELSE Return(Tally([total_tasks |-> Len(task_ids),
                     successful_routes |-> 0,
                     failed_routes |-> 0,
                     assignments |-> DictV(<<>>),
                     errors |-> <<>>],
                    calls))

(***************************************************************************)
(* The inputs: task records built from pools of titles, descriptions and   *)
(* notes, a record with no notes key among them.                           *)
(***************************************************************************)
TitlePool ==
  <<
     \* ""
     <<>>,
     \* "Fix bug"
     <<"F","i","x"," ","b","u","g">>,
     \* "x"
     <<"x">>,
     \* "UI"
     <<"U","I">>,
     \* "validate tests"
     <<"v","a","l","i","d","a","t","e"," ","t","e","s","t","s">>,
     \* "Write pytest tests for JWT endpoint"
     <<"W","r","i","t","e"," ","p","y","t","e","s","t"," ","t","e","s","t","s"," ","f","o","r",
       " ","J","W","T"," ","e","n","d","p","o","i","n","t">>
  >>

DescriptionPool ==
  <<
     \* ""
     <<>>,
     \* "Update README guide"
     <<"U","p","d","a","t","e"," ","R","E","A","D","M","E"," ","g","u","i","d","e">>
  >>

NotesPool ==
  <<
     \* ""
     <<>>,
     \* "EXPLICIT_HANDOFF: {\"agent_role\":\"testing\",\"specialist_tags\":[\"testing\",\"python\",\"validation\"]}"
     <<"E","X","P","L","I","C","I","T","_","H","A","N","D","O","F","F",":"," ","{","\"","a","g",
       "e","n","t","_","r","o","l","e","\"",":","\"","t","e","s","t","i","n","g","\"",",","\"",
       "s","p","e","c","i","a","l","i","s","t","_","t","a","g","s","\"",":","[","\"","t","e",
       "s","t","i","n","g","\"",",","\"","p","y","t","h","o","n","\"",",","\"","v","a","l","i",
       "d","a","t","i","o","n","\"","]","}">>,
     \* "EXPLICIT_HANDOFF: {\"agent_role\":\"testing\"}"
     <<"E","X","P","L","I","C","I","T","_","H","A","N","D","O","F","F",":"," ","{","\"","a","g",
       "e","n","t","_","r","o","l","e","\"",":","\"","t","e","s","t","i","n","g","\"","}">>,
     \* "EXPLICIT_HANDOFF: {bad"
     <<"E","X","P","L","I","C","I","T","_","H","A","N","D","O","F","F",":"," ","{","b","a","d">>,
     \* "plain notes"
     <<"p","l","a","i","n"," ","n","o","t","e","s">>,
     \* "EXPLICIT_HANDOFF: {\"specialist_tags\":[\"testing\",\"python\"]}"
     <<"E","X","P","L","I","C","I","T","_","H","A","N","D","O","F","F",":"," ","{","\"","s","p",
       "e","c","i","a","l","i","s","t","_","t","a","g","s","\"",":","[","\"","t","e","s","t",
       "i","n","g","\"",",","\"","p","y","t","h","o","n","\"","]","}">>,
     \* "'EXPLICIT_HANDOFF: {\"specialist_tags\":[\"testing\",\"python\"]}'"
     <<"'","E","X","P","L","I","C","I","T","_","H","A","N","D","O","F","F",":"," ","{","\"","s",
       "p","e","c","i","a","l","i","s","t","_","t","a","g","s","\"",":","[","\"","t","e","s",
       "t","i","n","g","\"",",","\"","p","y","t","h","o","n","\"","]","}","'">>,
     \* "EXPLICIT_HANDOFF: {\"specialist_tags\":[\"testing\",\"validation\",\"quality\"]}"
     <<"E","X","P","L","I","C","I","T","_","H","A","N","D","O","F","F",":"," ","{","\"","s","p",
       "e","c","i","a","l","i","s","t","_","t","a","g","s","\"",":","[","\"","t","e","s","t",
       "i","n","g","\"",",","\"","v","a","l","i","d","a","t","i","o","n","\"",",","\"","q","u",
       "a","l","i","t","y","\"","]","}">>,
     \* "EXPLICIT_HANDOFF: {\"specialist_tags\":[\"testing\",\"validation\",\"quality\",\"fixing\",\"debugging\",\"repair\"]}"
     <<"E","X","P","L","I","C","I","T","_","H","A","N","D","O","F","F",":"," ","{","\"","s","p",
       "e","c","i","a","l","i","s","t","_","t","a","g","s","\"",":","[","\"","t","e","s","t",
       "i","n","g","\"",",","\"","v","a","l","i","d","a","t","i","o","n","\"",",","\"","q","u",
       "a","l","i","t","y","\"",",","\"","f","i","x","i","n","g","\"",",","\"","d","e","b","u",
       "g","g","i","n","g","\"",",","\"","r","e","p","a","i","r","\"","]","}">>,
     \* "EXPLICIT_HANDOFF: {\"specialist_tags\":[\"testing\",\"validation\",\"quality\",\"a\",\"b\",\"c\",\"d\",\"e\",\"f\",\"g\"]}"
     <<"E","X","P","L","I","C","I","T","_","H","A","N","D","O","F","F",":"," ","{","\"","s","p",
       "e","c","i","a","l","i","s","t","_","t","a","g","s","\"",":","[","\"","t","e","s","t",
       "i","n","g","\"",",","\"","v","a","l","i","d","a","t","i","o","n","\"",",","\"","q","u",
       "a","l","i","t","y","\"",",","\"","a","\"",",","\"","b","\"",",","\"","c","\"",",","\"",
       "d","\"",",","\"","e","\"",",","\"","f","\"",",","\"","g","\"","]","}">>,
     \* "EXPLICIT_HANDOFF: {\"specialist_tags\":[\"testing\",\"validation\",\"a\",\"b\",\"c\",\"d\"]}"
     <<"E","X","P","L","I","C","I","T","_","H","A","N","D","O","F","F",":"," ","{","\"","s","p",
       "e","c","i","a","l","i","s","t","_","t","a","g","s","\"",":","[","\"","t","e","s","t",
       "i","n","g","\"",",","\"","v","a","l","i","d","a","t","i","o","n","\"",",","\"","a","\"",
       ",","\"","b","\"",",","\"","c","\"",",","\"","d","\"","]","}">>,
     \* "EXPLICIT_HANDOFF: {\"specialist_tags\":[\"general\"]}"
     <<"E","X","P","L","I","C","I","T","_","H","A","N","D","O","F","F",":"," ","{","\"","s","p",
       "e","c","i","a","l","i","s","t","_","t","a","g","s","\"",":","[","\"","g","e","n","e",
       "r","a","l","\"","]","}">>,
     \* "EXPLICIT_HANDOFF: {\"specialist_tags\":[\"Testing\"]}"
     <<"E","X","P","L","I","C","I","T","_","H","A","N","D","O","F","F",":"," ","{","\"","s","p",
       "e","c","i","a","l","i","s","t","_","t","a","g","s","\"",":","[","\"","T","e","s","t",
       "i","n","g","\"","]","}">>,
     \* "EXPLICIT_HANDOFF: {\"specialist_tags\":[]}"
     <<"E","X","P","L","I","C","I","T","_","H","A","N","D","O","F","F",":"," ","{","\"","s","p",
       "e","c","i","a","l","i","s","t","_","t","a","g","s","\"",":","[","]","}">>,
     \* "EXPLICIT_HANDOFF: {}"
     <<"E","X","P","L","I","C","I","T","_","H","A","N","D","O","F","F",":"," ","{","}">>,
     \* "EXPLICIT_HANDOFF:"
     <<"E","X","P","L","I","C","I","T","_","H","A","N","D","O","F","F",":">>,
     \* "EXPLICIT_HANDOFF: {\"specialist_tags\":[\"a\"]} done"
     <<"E","X","P","L","I","C","I","T","_","H","A","N","D","O","F","F",":"," ","{","\"","s","p",
       "e","c","i","a","l","i","s","t","_","t","a","g","s","\"",":","[","\"","a","\"","]","}",
       " ","d","o","n","e">>,
     \* "EXPLICIT_HANDOFF: \"abc\""
     <<"E","X","P","L","I","C","I","T","_","H","A","N","D","O","F","F",":"," ","\"","a","b","c",
       "\"">>,
     \* "EXPLICIT_HANDOFF: null"
     <<"E","X","P","L","I","C","I","T","_","H","A","N","D","O","F","F",":"," ","n","u","l","l">>,
     \* "EXPLICIT_HANDOFF: 0"
     <<"E","X","P","L","I","C","I","T","_","H","A","N","D","O","F","F",":"," ","0">>,
     \* "EXPLICIT_HANDOFF: 5"
     <<"E","X","P","L","I","C","I","T","_","H","A","N","D","O","F","F",":"," ","5">>,
     \* "EXPLICIT_HANDOFF: true"
     <<"E","X","P","L","I","C","I","T","_","H","A","N","D","O","F","F",":"," ","t","r","u","e">>,
     \* "EXPLICIT_HANDOFF: NaN"
     <<"E","X","P","L","I","C","I","T","_","H","A","N","D","O","F","F",":"," ","N","a","N">>,
     \* "EXPLICIT_HANDOFF: [1]"
     <<"E","X","P","L","I","C","I","T","_","H","A","N","D","O","F","F",":"," ","[","1","]">>,
     \* "EXPLICIT_HANDOFF: [\"specialist_tags\"]"
     <<"E","X","P","L","I","C","I","T","_","H","A","N","D","O","F","F",":"," ","[","\"","s","p",
       "e","c","i","a","l","i","s","t","_","t","a","g","s","\"","]">>,
     \* "EXPLICIT_HANDOFF: {\"specialist_tags\":5}"
     <<"E","X","P","L","I","C","I","T","_","H","A","N","D","O","F","F",":"," ","{","\"","s","p",
       "e","c","i","a","l","i","s","t","_","t","a","g","s","\"",":","5","}">>,
     \* "EXPLICIT_HANDOFF: {\"specialist_tags\":\"ab\"}"
     <<"E","X","P","L","I","C","I","T","_","H","A","N","D","O","F","F",":"," ","{","\"","s","p",
       "e","c","i","a","l","i","s","t","_","t","a","g","s","\"",":","\"","a","b","\"","}">>,
     \* "EXPLICIT_HANDOFF: {\"specialist_tags\":[[\"a\"]]}"
     <<"E","X","P","L","I","C","I","T","_","H","A","N","D","O","F","F",":"," ","{","\"","s","p",
       "e","c","i","a","l","i","s","t","_","t","a","g","s","\"",":","[","[","\"","a","\"","]",
       "]","}">>,
     \* "EXPLICIT_HANDOFF: {\"specialist_tags\":{\"general\":1}}"
     <<"E","X","P","L","I","C","I","T","_","H","A","N","D","O","F","F",":"," ","{","\"","s","p",
       "e","c","i","a","l","i","s","t","_","t","a","g","s","\"",":","{","\"","g","e","n","e",
       "r","a","l","\"",":","1","}","}">>,
     \* "EXPLICIT_HANDOFF: {\"specialist_tags\":[1,true,null]}"
     <<"E","X","P","L","I","C","I","T","_","H","A","N","D","O","F","F",":"," ","{","\"","s","p",
       "e","c","i","a","l","i","s","t","_","t","a","g","s","\"",":","[","1",",","t","r","u","e",
       ",","n","u","l","l","]","}">>,
     \* "EXPLICIT_HANDOFF: {\"specialist_tags\":[\"a\"],\"specialist_tags\":[\"b\"]}"
     <<"E","X","P","L","I","C","I","T","_","H","A","N","D","O","F","F",":"," ","{","\"","s","p",
       "e","c","i","a","l","i","s","t","_","t","a","g","s","\"",":","[","\"","a","\"","]",",",
       "\"","s","p","e","c","i","a","l","i","s","t","_","t","a","g","s","\"",":","[","\"","b",
       "\"","]","}">>,
     \* "EXPLICIT_HANDOFF: {\"specialist_tags\":[\"EXPLICIT_HANDOFF:x\"]}"
     <<"E","X","P","L","I","C","I","T","_","H","A","N","D","O","F","F",":"," ","{","\"","s","p",
       "e","c","i","a","l","i","s","t","_","t","a","g","s","\"",":","[","\"","E","X","P","L",
       "I","C","I","T","_","H","A","N","D","O","F","F",":","x","\"","]","}">>
  >>

\* how many calls of match_agent_to_task are recorded for one task
MaxCalls == 2

\* Every title and description with each of the first four notes and with no
\* notes key; every note with the first two titles and an empty description.
Tasks ==
  {[title |-> t, description |-> d, notes |-> NotesPool[i]] :
      t \in Range(TitlePool), d \in Range(DescriptionPool), i \in 1..4}
  \cup {[title |-> TitlePool[i], description |-> <<>>, notes |-> n] :
      i \in 1..2, n \in Range(NotesPool)}
  \cup {[title |-> t, description |-> d] :
      t \in Range(TitlePool), d \in Range(DescriptionPool)}

(***************************************************************************)
(* The state: the task record at hand, and what each operation of the      *)
(* orchestrator returned (or raised) when last called on it.               *)
(***************************************************************************)
VARIABLES
  task_data,     \* the task record the caller holds
  parsed,        \* outcome of parse_notes_for_handoff(task_data['notes'])
  extracted,     \* outcome of extract_specialist_tags(task_data)
  agent_scores,  \* agent_scores of the last match_agent_to_task call that built it
  match_log,     \* outcomes of the match_agent_to_task calls, oldest first
  suggestion,    \* outcome of get_routing_suggestion(task_data)
  transport,     \* what awaiting mcp_client.call_tool does
  normalized,    \* outcome of _extract_structured_content on the transport's answer
  call_count,    \* how many times call_tool has been invoked
  last_call,     \* the last wrapper call: its calls on the transport and its outcome
  orchestrator,  \* the Orchestrator constructed, and what its initialize did
  draws,         \* how many values uuid.uuid4() has drawn
  issued,        \* the message_id of every envelope built, oldest first
  message,       \* the envelope built last, with the call that built it
  helper_return, \* what the high-level helper called last returned
  runs,          \* what `bd show <id> --json` does for each task id, or Idle
  routed,        \* the last call of route_task
  batch          \* the last call of route_batch: its input, calls and report

orchestrator_vars == <<task_data, parsed, extracted, agent_scores, match_log, suggestion>>
client_vars == <<transport, normalized, call_count, last_call, orchestrator>>
protocol_vars == <<draws, issued, message, helper_return>>
router_vars == <<runs, routed, batch>>
vars == <<orchestrator_vars, client_vars, protocol_vars, router_vars>>

\* the mail client not in use
ClientIdle ==
  /\ transport = Idle
  /\ normalized = Idle
  /\ call_count = 0
  /\ last_call = Idle
  /\ orchestrator = Idle

\* no envelope built
ProtocolIdle ==
  /\ draws = 0
  /\ issued = <<>>
  /\ message = Idle
  /\ helper_return = Idle

\* route_task and route_batch not in use
RouterIdle ==
  /\ runs = Idle
  /\ routed = Idle
  /\ batch = Idle

Init ==
  /\ task_data \in Tasks
  /\ parsed = Idle
  /\ extracted = Idle
  /\ agent_scores = <<>>
  /\ match_log = <<>>
  /\ suggestion = Idle
  /\ ClientIdle
  /\ ProtocolIdle
  /\ RouterIdle

ParseNotes ==
  /\ "notes" \in DOMAIN task_data
  /\ parsed = Idle
  /\ parsed' = parse_notes_for_handoff(task_data["notes"])
  /\ UNCHANGED <<task_data, extracted, agent_scores, match_log, suggestion>>
  /\ UNCHANGED <<client_vars, protocol_vars, router_vars>>

ExtractTags ==
  /\ extracted = Idle
  /\ extracted' = extract_specialist_tags(task_data)
  /\ UNCHANGED <<task_data, parsed, agent_scores, match_log, suggestion>>
  /\ UNCHANGED <<client_vars, protocol_vars, router_vars>>

MatchAgent ==
  /\ Len(match_log) < MaxCalls
  /\ agent_scores' = ScoresBuilt(extract_specialist_tags(task_data))
  /\ match_log' = Append(match_log, match_agent_to_task(task_data))
  /\ UNCHANGED <<task_data, parsed, extracted, suggestion>>
  /\ UNCHANGED <<client_vars, protocol_vars, router_vars>>

RoutingSuggestion ==
  /\ suggestion = Idle
  /\ suggestion' = get_routing_suggestion(task_data)
  /\ UNCHANGED <<task_data, parsed, extracted, agent_scores, match_log>>
  /\ UNCHANGED <<client_vars, protocol_vars, router_vars>>

Next == ParseNotes \/ ExtractTags \/ MatchAgent \/ RoutingSuggestion

Spec == Init /\ [][Next]_vars

\* the enhanced orchestrator not in use
OrchestratorIdle ==
  /\ task_data = [title |-> <<>>, description |-> <<>>]
  /\ parsed = Idle
  /\ extracted = Idle
  /\ agent_scores = <<>>
  /\ match_log = <<>>
  /\ suggestion = Idle

\* what mcp_client.call_tool may return
ResponsePool ==
  <<
     \* {"content": [{"type": "text", "text": "Agent not found"}]}
     DictV(<<<<Str(<<"c","o","n","t","e","n","t">>), ListV(<<DictV(<<<<Str(<<"t","y","p","e">>),
     Str(<<"t","e","x","t">>)>>, <<Str(<<"t","e","x","t">>),
     Str(<<"A","g","e","n","t"," ","n","o","t"," ","f","o","u","n","d">>)>>>>)>>)>>>>),
     \* {"content": [{"type": "text", "text": "Error: bad request"}], "structuredContent": {"ok": true}, "result": {"ok": true}}
     DictV(<<<<Str(<<"c","o","n","t","e","n","t">>), ListV(<<DictV(<<<<Str(<<"t","y","p","e">>),
     Str(<<"t","e","x","t">>)>>, <<Str(<<"t","e","x","t">>),
     Str(<<"E","r","r","o","r",":"," ","b","a","d"," ","r","e","q","u","e","s","t">>)>>>>)>>)>>,
     <<Str(<<"s","t","r","u","c","t","u","r","e","d","C","o","n","t","e","n","t">>),
     DictV(<<<<Str(<<"o","k">>), BoolV(TRUE)>>>>)>>, <<Str(<<"r","e","s","u","l","t">>),
     DictV(<<<<Str(<<"o","k">>), BoolV(TRUE)>>>>)>>>>),
     \* {"content": [{"type": "text", "text": "agent NOT FOUND here"}], "result": {"a": 1}}
     DictV(<<<<Str(<<"c","o","n","t","e","n","t">>), ListV(<<DictV(<<<<Str(<<"t","y","p","e">>),
     Str(<<"t","e","x","t">>)>>, <<Str(<<"t","e","x","t">>),
     Str(<<"a","g","e","n","t"," ","N","O","T"," ","F","O","U","N","D"," ","h","e","r","e">>)>>>>)>>)>>,
     <<Str(<<"r","e","s","u","l","t">>), DictV(<<<<Str(<<"a">>), IntV(1)>>>>)>>>>),
     \* {"result": {"ok": true}, "content": [{"type": "text", "text": "{\"ok\":true}"}]}
     DictV(<<<<Str(<<"r","e","s","u","l","t">>), DictV(<<<<Str(<<"o","k">>), BoolV(TRUE)>>>>)>>,
     <<Str(<<"c","o","n","t","e","n","t">>), ListV(<<DictV(<<<<Str(<<"t","y","p","e">>),
     Str(<<"t","e","x","t">>)>>, <<Str(<<"t","e","x","t">>),
     Str(<<"{","\"","o","k","\"",":","t","r","u","e","}">>)>>>>)>>)>>>>),
     \* {"result": {"ok": true}, "content": [{"type": "text", "text": "plain words"}]}
     DictV(<<<<Str(<<"r","e","s","u","l","t">>), DictV(<<<<Str(<<"o","k">>), BoolV(TRUE)>>>>)>>,
     <<Str(<<"c","o","n","t","e","n","t">>), ListV(<<DictV(<<<<Str(<<"t","y","p","e">>),
     Str(<<"t","e","x","t">>)>>, <<Str(<<"t","e","x","t">>),
     Str(<<"p","l","a","i","n"," ","w","o","r","d","s">>)>>>>)>>)>>>>),
     \* {"result": {"granted": [{"id": 1}]}}
     DictV(<<<<Str(<<"r","e","s","u","l","t">>), DictV(<<<<Str(<<"g","r","a","n","t","e","d">>),
     ListV(<<DictV(<<<<Str(<<"i","d">>), IntV(1)>>>>)>>)>>>>)>>>>),
     \* {"structuredContent": {"id": 7}, "result": {"x": 1}, "content": [{"type": "text", "text": "{\"y\":2}"}]}
     DictV(<<<<Str(<<"s","t","r","u","c","t","u","r","e","d","C","o","n","t","e","n","t">>),
     DictV(<<<<Str(<<"i","d">>), IntV(7)>>>>)>>, <<Str(<<"r","e","s","u","l","t">>),
     DictV(<<<<Str(<<"x">>), IntV(1)>>>>)>>, <<Str(<<"c","o","n","t","e","n","t">>),
     ListV(<<DictV(<<<<Str(<<"t","y","p","e">>), Str(<<"t","e","x","t">>)>>,
     <<Str(<<"t","e","x","t">>), Str(<<"{","\"","y","\"",":","2","}">>)>>>>)>>)>>>>),
     \* {"structuredContent": {"id": 7}}
     DictV(<<<<Str(<<"s","t","r","u","c","t","u","r","e","d","C","o","n","t","e","n","t">>),
     DictV(<<<<Str(<<"i","d">>), IntV(7)>>>>)>>>>),
     \* {"result": {"content": [{"type": "text", "text": "{\"ok\":true}"}], "isError": false}}
     DictV(<<<<Str(<<"r","e","s","u","l","t">>), DictV(<<<<Str(<<"c","o","n","t","e","n","t">>),
     ListV(<<DictV(<<<<Str(<<"t","y","p","e">>), Str(<<"t","e","x","t">>)>>,
     <<Str(<<"t","e","x","t">>),
     Str(<<"{","\"","o","k","\"",":","t","r","u","e","}">>)>>>>)>>)>>,
     <<Str(<<"i","s","E","r","r","o","r">>), BoolV(FALSE)>>>>)>>>>),
     \* {"result": {"content": [{"type": "text", "text": "Agent not found"}], "isError": true}}
     DictV(<<<<Str(<<"r","e","s","u","l","t">>), DictV(<<<<Str(<<"c","o","n","t","e","n","t">>),
     ListV(<<DictV(<<<<Str(<<"t","y","p","e">>), Str(<<"t","e","x","t">>)>>,
     <<Str(<<"t","e","x","t">>),
     Str(<<"A","g","e","n","t"," ","n","o","t"," ","f","o","u","n","d">>)>>>>)>>)>>,
     <<Str(<<"i","s","E","r","r","o","r">>), BoolV(TRUE)>>>>)>>>>),
     \* {"content": [{"type": "text", "text": "{\"ok\":true}"}]}
     DictV(<<<<Str(<<"c","o","n","t","e","n","t">>), ListV(<<DictV(<<<<Str(<<"t","y","p","e">>),
     Str(<<"t","e","x","t">>)>>, <<Str(<<"t","e","x","t">>),
     Str(<<"{","\"","o","k","\"",":","t","r","u","e","}">>)>>>>)>>)>>>>),
     \* {}
     DictV(<<>>),
     \* {"result": 1, "content": []}
     DictV(<<<<Str(<<"r","e","s","u","l","t">>), IntV(1)>>,
     <<Str(<<"c","o","n","t","e","n","t">>), ListV(<<>>)>>>>),
     \* {"content": [{"type": "image", "text": "Error"}], "result": {"a": 1}}
     DictV(<<<<Str(<<"c","o","n","t","e","n","t">>), ListV(<<DictV(<<<<Str(<<"t","y","p","e">>),
     Str(<<"i","m","a","g","e">>)>>, <<Str(<<"t","e","x","t">>),
     Str(<<"E","r","r","o","r">>)>>>>)>>)>>, <<Str(<<"r","e","s","u","l","t">>),
     DictV(<<<<Str(<<"a">>), IntV(1)>>>>)>>>>),
     \* {"content": [{"type": "text"}], "result": 1}
     DictV(<<<<Str(<<"c","o","n","t","e","n","t">>), ListV(<<DictV(<<<<Str(<<"t","y","p","e">>),
     Str(<<"t","e","x","t">>)>>>>)>>)>>, <<Str(<<"r","e","s","u","l","t">>), IntV(1)>>>>),
     \* {"content": [{"type": "text", "text": "error in lower case"}], "result": {}}
     DictV(<<<<Str(<<"c","o","n","t","e","n","t">>), ListV(<<DictV(<<<<Str(<<"t","y","p","e">>),
     Str(<<"t","e","x","t">>)>>, <<Str(<<"t","e","x","t">>),
     Str(<<"e","r","r","o","r"," ","i","n"," ","l","o","w","e","r"," ","c","a","s","e">>)>>>>)>>)>>,
     <<Str(<<"r","e","s","u","l","t">>), DictV(<<>>)>>>>),
     \* {"result": {"ok": true}, "content": [{"type": "text", "text": "{\"msg\":\"Error\"}"}]}
     DictV(<<<<Str(<<"r","e","s","u","l","t">>), DictV(<<<<Str(<<"o","k">>), BoolV(TRUE)>>>>)>>,
     <<Str(<<"c","o","n","t","e","n","t">>), ListV(<<DictV(<<<<Str(<<"t","y","p","e">>),
     Str(<<"t","e","x","t">>)>>, <<Str(<<"t","e","x","t">>),
     Str(<<"{","\"","m","s","g","\"",":","\"","E","r","r","o","r","\"","}">>)>>>>)>>)>>>>),
     \* {"isError": true, "result": {"a": 1}}
     DictV(<<<<Str(<<"i","s","E","r","r","o","r">>), BoolV(TRUE)>>,
     <<Str(<<"r","e","s","u","l","t">>), DictV(<<<<Str(<<"a">>), IntV(1)>>>>)>>>>),
     \* {"result": {"ok": true}, "content": [{"type": "text", "text": " [1, 2] "}]}
     DictV(<<<<Str(<<"r","e","s","u","l","t">>), DictV(<<<<Str(<<"o","k">>), BoolV(TRUE)>>>>)>>,
     <<Str(<<"c","o","n","t","e","n","t">>), ListV(<<DictV(<<<<Str(<<"t","y","p","e">>),
     Str(<<"t","e","x","t">>)>>, <<Str(<<"t","e","x","t">>),
     Str(<<" ","[","1",","," ","2","]"," ">>)>>>>)>>)>>>>),
     \* {"structuredContent": null}
     DictV(<<<<Str(<<"s","t","r","u","c","t","u","r","e","d","C","o","n","t","e","n","t">>),
     None>>>>),
     \* {"result": null}
     DictV(<<<<Str(<<"r","e","s","u","l","t">>), None>>>>),
     \* {"result": {"message_id": "m-1"}}
     DictV(<<<<Str(<<"r","e","s","u","l","t">>),
     DictV(<<<<Str(<<"m","e","s","s","a","g","e","_","i","d">>), Str(<<"m","-","1">>)>>>>)>>>>),
     \* {"content": [{"type": "text", "text": "{\"message_id\":\"m-2\"}"}], "result": {}}
     DictV(<<<<Str(<<"c","o","n","t","e","n","t">>), ListV(<<DictV(<<<<Str(<<"t","y","p","e">>),
     Str(<<"t","e","x","t">>)>>, <<Str(<<"t","e","x","t">>),
     Str(<<"{","\"","m","e","s","s","a","g","e","_","i","d","\"",":","\"","m","-","2","\"","}">>)>>>>)>>)>>,
     <<Str(<<"r","e","s","u","l","t">>), DictV(<<>>)>>>>),
     \* {"content": "x"}
     DictV(<<<<Str(<<"c","o","n","t","e","n","t">>), Str(<<"x">>)>>>>),
     \* {"content": [5]}
     DictV(<<<<Str(<<"c","o","n","t","e","n","t">>), ListV(<<IntV(5)>>)>>>>),
     \* {"content": [{"type": "text", "text": 5}], "result": {}}
     DictV(<<<<Str(<<"c","o","n","t","e","n","t">>), ListV(<<DictV(<<<<Str(<<"t","y","p","e">>),
     Str(<<"t","e","x","t">>)>>, <<Str(<<"t","e","x","t">>), IntV(5)>>>>)>>)>>,
     <<Str(<<"r","e","s","u","l","t">>), DictV(<<>>)>>>>),
     \* {"content": 5}
     DictV(<<<<Str(<<"c","o","n","t","e","n","t">>), IntV(5)>>>>),
     \* null
     None,
     \* []
     ListV(<<>>),
     \* {"structuredContent": {"id": 7}, "result": {"x": 1}}
     DictV(<<<<Str(<<"s","t","r","u","c","t","u","r","e","d","C","o","n","t","e","n","t">>),
     DictV(<<<<Str(<<"i","d">>), IntV(7)>>>>)>>, <<Str(<<"r","e","s","u","l","t">>),
     DictV(<<<<Str(<<"x">>), IntV(1)>>>>)>>>>)
  >>

\* the content given to send_message
ContentPool ==
  <<
     \* {"type": "task_assignment", "subject": "Task", "task_id": "bd-42"}
     DictV(<<<<Str(<<"t","y","p","e">>),
     Str(<<"t","a","s","k","_","a","s","s","i","g","n","m","e","n","t">>)>>,
     <<Str(<<"s","u","b","j","e","c","t">>), Str(<<"T","a","s","k">>)>>,
     <<Str(<<"t","a","s","k","_","i","d">>), Str(<<"b","d","-","4","2">>)>>>>),
     \* {"task": "Implement feature"}
     DictV(<<<<Str(<<"t","a","s","k">>),
     Str(<<"I","m","p","l","e","m","e","n","t"," ","f","e","a","t","u","r","e">>)>>>>),
     \* {"type": "status_update", "progress": "<object>"}
     DictV(<<<<Str(<<"t","y","p","e">>),
     Str(<<"s","t","a","t","u","s","_","u","p","d","a","t","e">>)>>,
     <<Str(<<"p","r","o","g","r","e","s","s">>), Opaque>>>>),
     \* "Implement feature"
     Str(<<"I","m","p","l","e","m","e","n","t"," ","f","e","a","t","u","r","e">>)
  >>

\* the metadata given to Orchestrator.delegate_task
MetadataPool ==
  <<
     \* null
     None,
     \* {"labels": ["ui"]}
     DictV(<<<<Str(<<"l","a","b","e","l","s">>), ListV(<<Str(<<"u","i">>)>>)>>>>),
     \* {"component": "<object>"}
     DictV(<<<<Str(<<"c","o","m","p","o","n","e","n","t">>), Opaque>>>>)
  >>

(***************************************************************************)
(* The mail client at work: a transport that answers every call the same   *)
(* way, the normalizer called on its answer, and the wrappers and          *)
(* Orchestrator.delegate_task called on it.                                *)
(***************************************************************************)
\* what awaiting mcp_client.call_tool does: it returns a response or raises
TransportOutcomes ==
  {Return(r) : r \in Range(ResponsePool)}
  \cup {RaiseWith("ConnectionError", Str(<<"c","o","n","n","e","c","t","i","o","n"," ","r","e","f","u","s","e","d">>)),
        RaiseWith("TimeoutError", Str(<<>>))}

\* how many calls on the transport are followed
MaxToolCalls == 2

ClientInit ==
  /\ transport \in TransportOutcomes
  /\ normalized = Idle
  /\ call_count = 0
  /\ last_call = Idle
  /\ orchestrator = Idle
  /\ OrchestratorIdle
  /\ ProtocolIdle
  /\ RouterIdle

\* one call of a wrapper or of Orchestrator.delegate_task: the arguments it
\* built for the tool (or the error of building them), the calls it made on
\* the transport, and its outcome
Called(name, tool_name, arguments, outcome) ==
  /\ call_count < MaxToolCalls
  /\ last_call' = [name |-> name,
                   arguments |-> arguments,
                   calls |-> CallsMade(tool_name, arguments, transport),
                   outcome |-> outcome]
  /\ call_count' = call_count + Len(CallsMade(tool_name, arguments, transport))
  /\ UNCHANGED <<transport, normalized, orchestrator, orchestrator_vars, protocol_vars, router_vars>>

\* one call of a wrapper with the arguments it built
WrapperCalled(tool_name, arguments) ==
  Called(tool_name, tool_name, arguments, Wrapper(arguments, transport))

\* _extract_structured_content(response) on what the transport returns
ExtractStructuredContent ==
  /\ transport.kind = "return"
  /\ normalized = Idle
  /\ normalized' = _extract_structured_content(transport.value)
  /\ UNCHANGED <<transport, call_count, last_call, orchestrator, orchestrator_vars, protocol_vars, router_vars>>

RegisterAgent ==
  \E agent_name \in {None, Caller.orchestrator} :
    WrapperCalled("register_agent",
                  Return(RegisterParams(Caller.project_key, agent_name, Caller.model, Str(<<>>))))

SendMessage ==
  \E content \in Range(ContentPool) :
    WrapperCalled("send_message",
                  SendArguments(Caller.project_key, Caller.orchestrator, Caller.droid, content,
                                Caller.importance))

FetchInbox ==
  WrapperCalled("fetch_inbox",
                Return(FetchArguments(Caller.project_key, Caller.droid, IntV(DefaultLimit),
                                      BoolV(FALSE))))

AcknowledgeMessage ==
  WrapperCalled("acknowledge_message",
                Return(AcknowledgeArguments(Caller.project_key, Caller.droid, Str(<<"m","-","1">>))))

ReserveFilePaths ==
  WrapperCalled("reserve_file_paths",
                Return(ReserveArguments(Caller.project_key, Caller.droid, ListV(<<Str(<<"s","r","c","/","*","*">>)>>),
                                        IntV(DefaultTtlSeconds), BoolV(FALSE))))

ReleaseFileReservations ==
  WrapperCalled("release_file_reservations",
                Return(ReleaseArguments(Caller.project_key, Caller.droid)))

\* the arguments send_message builds for the content of delegate_task
DelegateArguments(priority, metadata) ==
  SendArguments(Caller.project_key, Caller.orchestrator, Caller.droid,
                MessageContent(Str(<<"b","d","-","4","2">>), Str(<<"I","m","p","l","e","m","e","n","t"," ","l","o","g","i","n">>), None, priority, None,
                               DefaultEstimatedMinutes, metadata),
                PriorityName(priority))

\* Orchestrator.delegate_task(droid_name, task_id, description, priority=...,
\* metadata=...): its one call of send_message, and what it returns or raises
OrchestratorDelegateTask ==
  \E priority \in Priorities, metadata \in Range(MetadataPool) :
    Called("Orchestrator.delegate_task", "send_message",
           DelegateArguments(priority, metadata),
           DelegateOutcome(Str(<<"b","d","-","4","2">>), Caller.droid,
                           Wrapper(DelegateArguments(priority, metadata), transport)))

\* the interpreters initialize may run under
PythonVersions == {<<3, 9>>, <<3, 10>>, <<3, 12>>}

\* what get_project_key() does: the repository path, or the error of
\* os.getcwd() when the fallback fails too
ProjectKeys == {Return(Caller.project_key), RaiseWith("FileNotFoundError", Str(<<"N","o"," ","s","u","c","h"," ","f","i","l","e"," ","o","r"," ","d","i","r","e","c","t","o","r","y">>))}

\* Orchestrator(mcp_client=..., model=...)
OrchestratorNew ==
  \E mcp_client \in {None, Opaque} :
    /\ orchestrator = Idle
    /\ orchestrator' = [mcp_client |-> mcp_client,
                        new |-> Orchestrator(mcp_client, Caller.model),
                        initialized |-> Idle]
    /\ UNCHANGED <<transport, normalized, call_count, last_call>>
    /\ UNCHANGED <<orchestrator_vars, protocol_vars, router_vars>>

\* what initialize did to the object, the transport answering as it does
Initializing(did) ==
  /\ orchestrator' = [orchestrator EXCEPT !.initialized = did]
  /\ call_count' = call_count + Len(did.calls)
  /\ UNCHANGED <<transport, normalized, last_call>>
  /\ UNCHANGED <<orchestrator_vars, protocol_vars, router_vars>>

\* await orchestrator.initialize(task_description=...)
OrchestratorInitialize ==
  \E task_description \in {Str(<<>>), Str(<<"T","e","s","t"," ","d","e","l","e","g","a","t","i","o","n">>)}, python_version \in PythonVersions, got_project_key \in ProjectKeys :
    /\ orchestrator # Idle
    /\ orchestrator.new.kind = "return"
    /\ orchestrator.initialized = Idle
    /\ call_count < MaxToolCalls
    /\ Initializing(initialize(orchestrator.new.value, task_description, python_version,
                               got_project_key, transport))

ClientNext ==
  \/ ExtractStructuredContent
  \/ RegisterAgent
  \/ SendMessage
  \/ FetchInbox
  \/ AcknowledgeMessage
  \/ ReserveFilePaths
  \/ ReleaseFileReservations
  \/ OrchestratorDelegateTask
  \/ OrchestratorNew
  \/ OrchestratorInitialize

ClientSpec == ClientInit /\ [][ClientNext]_vars


(***************************************************************************)
(* The handoff protocol in use: envelopes are built one after another, by  *)
(* the constructors or by the high-level helpers.                          *)
(***************************************************************************)
\* the instants the clock is read at
Clock == 0..1

\* the envelopes built in one behaviour
MaxEnvelopes == 3

\* the arguments each function of handoff_protocol is called with
Arguments ==
  [create_task_assignment_message |->
     {[sender_id |-> who[1], task_id |-> Str(<<"b","d","-","4","2">>),
       description |-> Str(<<"B","u","i","l","d"," ","l","o","g","i","n"," ","f","o","r","m">>), file_patterns |-> who[2],
       priority |-> Str(<<"h","i","g","h">>), priority_value |-> IntV(1),
       specification |-> sd[1], dependencies |-> dm[1],
       estimated_duration_minutes |-> e, deadline |-> sd[2], metadata |-> dm[2]] :
        who \in {<<Str(<<"o","r","c","h","e","s","t","r","a","t","o","r">>), ListV(<<Str(<<"s","r","c","/","*","*">>)>>)>>, <<Str(<<"l","e","a","d">>), ListV(<<>>)>>},
        sd \in {<<None, None>>, <<Str(<<"S","e","e"," ","d","e","s","i","g","n"," ","d","o","c">>), None>>,
                <<Str(<<>>), Str(<<"2","0","2","6","-","0","1","-","0","1","T","0","0",":","0","0",":","0","0","Z">>)>>,
                <<Str(<<"S","e","e"," ","d","e","s","i","g","n"," ","d","o","c">>), Str(<<"2","0","2","6","-","0","1","-","0","1","T","0","0",":","0","0",":","0","0","Z">>)>>},
        dm \in {<<None, None>>, <<ListV(<<>>), DictV(<< <<Str(<<"l","a","b","e","l","s">>), ListV(<<Str(<<"u","i">>)>>)>> >>)>>,
                <<ListV(<<Str(<<"b","d","-","4","1">>)>>), DictV(<<>>)>>,
                <<ListV(<<Str(<<"b","d","-","4","1">>)>>), DictV(<< <<Str(<<"l","a","b","e","l","s">>), ListV(<<Str(<<"u","i">>)>>)>> >>)>>},
        e \in {None, IntV(0), IntV(90)}},
   create_task_completion_message |->
     {[sender_id |-> who, task_id |-> Str(<<"b","d","-","4","2">>), status |-> Str(<<"c","o","m","p","l","e","t","e">>),
       completion_summary |-> Str(<<"F","o","r","m"," ","b","u","i","l","t">>), files_modified |-> f,
       test_results |-> tr, errors_encountered |-> w[1], warnings |-> w[2],
       time_spent_minutes |-> ts, next_tasks |-> None, metadata |-> m] :
        who \in {Str(<<"f","r","o","n","t","e","n","d","-","d","e","v">>), Str(<<"b","a","c","k","e","n","d","-","d","e","v">>)},
        f \in {None, ListV(<<Str(<<"s","r","c","/","l","o","g","i","n",".","t","s","x">>)>>)},
        tr \in {None, DictV(<< <<Str(<<"p","a","s","s","e","d">>), IntV(3)>> >>)},
        w \in {<<None, ListV(<<Str(<<"s","l","o","w"," ","t","e","s","t">>)>>)>>, <<ListV(<<Str(<<"l","i","n","t"," ","f","a","i","l","e","d">>)>>), None>>},
        ts \in {None, IntV(0), IntV(30)},
        m \in {DictV(<<>>)}},
   create_error_report_message |->
     {[sender_id |-> who, task_id |-> Str(<<"b","d","-","4","2">>), severity |-> Str(<<"h","i","g","h">>),
       error_code |-> Str(<<"E","_","B","U","I","L","D">>), error_message |-> Str(<<"b","u","i","l","d"," ","f","a","i","l","e","d">>),
       stack_trace |-> st, error_context |-> c, attempted_solutions |-> None,
       reproduction_steps |-> r, needs_human_intervention |-> h,
       suggested_actions |-> None, impact |-> None, attachments |-> None] :
        who \in {Str(<<"f","r","o","n","t","e","n","d","-","d","e","v">>)},
        st \in {None, Str(<<"T","r","a","c","e","b","a","c","k">>)},
        c \in {None, DictV(<< <<Str(<<"f","i","l","e">>), Str(<<"s","r","c","/","l","o","g","i","n",".","t","s","x">>)>> >>)},
        r \in {None, ListV(<<>>)},
        h \in {BoolV(FALSE), BoolV(TRUE)}},
   create_status_update_message |->
     {[sender_id |-> who, task_id |-> Str(<<"b","d","-","4","2">>), update_type |-> Str(<<"p","r","o","g","r","e","s","s">>),
       status_summary |-> Str(<<"h","a","l","f","w","a","y">>), progress |-> p, metrics |-> None,
       blockers |-> b, next_milestone |-> n, metadata |-> None] :
        who \in {Str(<<"b","a","c","k","e","n","d","-","d","e","v">>)},
        p \in {None, DictV(<< <<Str(<<"p","e","r","c","e","n","t">>), IntV(50)>> >>)},
        b \in {None, ListV(<<>>), ListV(<<Str(<<"w","a","i","t","i","n","g"," ","f","o","r"," ","a","p","i">>)>>)},
        n \in {None, Str(<<"r","e","v","i","e","w">>)}},
   delegate_task |->
     {[task_id |-> Str(<<"b","d","-","4","2">>), agent_name |-> Str(<<"f","r","o","n","t","e","n","d","-","d","e","v">>),
       description |-> Str(<<"B","u","i","l","d"," ","l","o","g","i","n"," ","f","o","r","m">>),
       file_patterns |-> ListV(<<Str(<<"s","r","c","/","*","*">>)>>), specialist_tags |-> tags,
       estimated_minutes |-> e, project_key |-> Str(<<"/","r","e","p","o">>),
       orchestrator_name |-> Str(<<"o","r","c","h","e","s","t","r","a","t","o","r">>)] :
        tags \in {ListV(<<>>), ListV(<<Str(<<"u","i">>)>>)},
        e \in {None, IntV(0), IntV(120), IntV(121)}},
   report_task_completion |->
     {[task_id |-> Str(<<"b","d","-","4","2">>), agent_name |-> Str(<<"f","r","o","n","t","e","n","d","-","d","e","v">>),
       completion_summary |-> Str(<<"F","o","r","m"," ","b","u","i","l","t">>),
       files_modified |-> ListV(<<Str(<<"s","r","c","/","l","o","g","i","n",".","t","s","x">>)>>),
       time_spent_minutes |-> ts, project_key |-> Str(<<"/","r","e","p","o">>), test_results |-> tr] :
        ts \in {IntV(0), IntV(30)},
        tr \in {None, DictV(<< <<Str(<<"p","a","s","s","e","d">>), IntV(3)>> >>)}},
   report_error |->
     {[task_id |-> Str(<<"b","d","-","4","2">>), agent_name |-> Str(<<"f","r","o","n","t","e","n","d","-","d","e","v">>), severity |-> sev,
       error_code |-> Str(<<"E","_","B","U","I","L","D">>), error_message |-> Str(<<"b","u","i","l","d"," ","f","a","i","l","e","d">>),
       needs_human_intervention |-> h] :
        sev \in {Str(<<"h","i","g","h">>), Str(<<"b","l","o","c","k","i","n","g">>)},
        h \in {BoolV(FALSE), BoolV(TRUE)}}]

ProtocolInit ==
  /\ OrchestratorIdle
  /\ ClientIdle
  /\ ProtocolIdle
  /\ RouterIdle

\* one envelope built by the function called: the id drawn for it is issued
Built(by, constructor, arguments, envelope, returned) ==
  /\ Len(issued) < MaxEnvelopes
  /\ draws' = draws + 1
  /\ issued' = Append(issued, GetItem(envelope, Str(<<"m","e","s","s","a","g","e","_","i","d">>)))
  /\ message' = [by |-> by, constructor |-> constructor,
                 arguments |-> arguments, envelope |-> envelope]
  /\ helper_return' = returned
  /\ UNCHANGED <<orchestrator_vars, client_vars, router_vars>>

\* one call of a high-level helper: the envelope its constructor built and the
\* pair it returns, or the pair of its except clause and no envelope
Helped(by, constructor, arguments, built) ==
  IF built.kind = "raise"
    THEN /\ Len(issued) < MaxEnvelopes
         /\ helper_return' = [helper |-> by, built |-> FALSE,
                              result |-> HelperReturn(built, draws)]
         /\ UNCHANGED <<draws, issued, message, orchestrator_vars, client_vars, router_vars>>
  ELSE Built(by, constructor, arguments, built.value,
             [helper |-> by, built |-> TRUE, result |-> HelperReturn(built, draws)])

CreateTaskAssignmentMessage ==
  \E a \in Arguments.create_task_assignment_message, now \in Clock :
    Built("create_task_assignment_message", "create_task_assignment_message", a,
          create_task_assignment_message(a, get_utc_timestamp(now),
                                         generate_message_id(draws)), Idle)

CreateTaskCompletionMessage ==
  \E a \in Arguments.create_task_completion_message, now \in Clock :
    Built("create_task_completion_message", "create_task_completion_message", a,
          create_task_completion_message(a, get_utc_timestamp(now),
                                         generate_message_id(draws)), Idle)

CreateErrorReportMessage ==
  \E a \in Arguments.create_error_report_message, now \in Clock :
    Built("create_error_report_message", "create_error_report_message", a,
          create_error_report_message(a, get_utc_timestamp(now),
                                      generate_message_id(draws)), Idle)

CreateStatusUpdateMessage ==
  \E a \in Arguments.create_status_update_message, now \in Clock :
    Built("create_status_update_message", "create_status_update_message", a,
          create_status_update_message(a, get_utc_timestamp(now),
                                       generate_message_id(draws)), Idle)

DelegateTask ==
  \E a \in Arguments.delegate_task, now \in Clock :
    Helped("delegate_task", "create_task_assignment_message", a,
           delegate_task(a, get_utc_timestamp(now), generate_message_id(draws)))

ReportTaskCompletion ==
  \E a \in Arguments.report_task_completion, now \in Clock :
    Helped("report_task_completion", "create_task_completion_message", a,
           report_task_completion(a, get_utc_timestamp(now),
                                  generate_message_id(draws)))

ReportError ==
  \E a \in Arguments.report_error, now \in Clock :
    Helped("report_error", "create_error_report_message", a,
           report_error(a, get_utc_timestamp(now), generate_message_id(draws)))

\* the assignment an orchestrator sent
SentAssignment ==
  create_task_assignment_message(
    [sender_id |-> Caller.orchestrator, task_id |-> Str(<<"b","d","-","4","2">>),
     description |-> Str(<<"B","u","i","l","d"," ","l","o","g","i","n"," ","f","o","r","m">>), file_patterns |-> ListV(<<Str(<<"s","r","c","/","*","*">>)>>),
     priority |-> Str(<<"h","i","g","h">>), priority_value |-> IntV(1),
     specification |-> None, dependencies |-> None,
     estimated_duration_minutes |-> IntV(90), deadline |-> None, metadata |-> None],
    get_utc_timestamp(0), Str(<<"m","s","g","-","7">>))

\* what a receiver may find in its inbox: the assignment as sent, with a type
\* or a version that does not exist, with file_patterns that is no list, and
\* dicts without the fields of an assignment
Received ==
  {SentAssignment,
   SetItem(SentAssignment, ClientLit.type, Str(<<"t","a","s","k","_","r","e","a","s","s","i","g","n","m","e","n","t">>)),
   SetItem(SentAssignment, Str(<<"v","e","r","s","i","o","n">>), Str(<<"9",".","9",".","9">>)),
   SetItem(SentAssignment, AgentLit.file_patterns, IntV(5)),
   DictV(<< <<ClientLit.type, MESSAGE.task_assignment>> >>),
   DictV(<<>>)}

\* ImplementationAgent().process_task(task_assignment): the report it built
\* and the pair it returned
ProcessTask ==
  \E task_assignment \in Received, now \in Clock, time_spent \in {0, 1} :
    LET did == process_task(AgentLit.agent_name, task_assignment, time_spent,
                            get_utc_timestamp(now), generate_message_id(draws))
    IN /\ Len(issued) < MaxEnvelopes
       /\ draws' = draws + 1
       /\ issued' = Append(issued, GetItem(did.result[2], Str(<<"m","e","s","s","a","g","e","_","i","d">>)))
       /\ message' = [by |-> "ImplementationAgent.process_task",
                      constructor |-> did.constructor,
                      arguments |-> did.arguments,
                      envelope |-> did.result[2],
                      received |-> task_assignment,
                      returned |-> did.result]
       /\ helper_return' = Idle
       /\ UNCHANGED <<orchestrator_vars, client_vars, router_vars>>

ProtocolNext ==
  \/ CreateTaskAssignmentMessage
  \/ CreateTaskCompletionMessage
  \/ CreateErrorReportMessage
  \/ CreateStatusUpdateMessage
  \/ DelegateTask
  \/ ReportTaskCompletion
  \/ ReportError
  \/ ProcessTask

ProtocolSpec == ProtocolInit /\ [][ProtocolNext]_vars

(***************************************************************************)
(* The router at work: bd answers each task id in one way, and route_task  *)
(* and route_batch are called on lists of those ids.                       *)
(***************************************************************************)
\* what a run of `bd show <id> --json` may do
RunPool ==
  <<
     \* bd is not installed
     Raise("FileNotFoundError"),
     \* bd exits with a non-zero status: no such task
     Raise("CalledProcessError"),
     \* stdout ""
     Return(Str(<<>>)),
     \* stdout "[]"
     Return(Str(<<"[","]">>)),
     \* stdout "7"
     Return(Str(<<"7">>)),
     \* stdout "[{\"title\": \"Fix bug\", \"description\": \"\", \"notes\": \"\"}]"
     Return(Str(<<"[","{","\"","t","i","t","l","e","\"",":"," ","\"","F","i","x"," ","b","u","g","\"",","," ","\"","d","e","s","c","r","i","p","t","i","o","n","\"",":"," ","\"","\"",","," ","\"","n","o","t","e","s","\"",":"," ","\"","\"","}","]">>)),
     \* stdout "{\"title\": \"Write pytest tests\", \"description\": \"for JWT endpoint\"}"
     Return(Str(<<"{","\"","t","i","t","l","e","\"",":"," ","\"","W","r","i","t","e"," ","p","y","t","e","s","t"," ","t","e","s","t","s","\"",","," ","\"","d","e","s","c","r","i","p","t","i","o","n","\"",":"," ","\"","f","o","r"," ","J","W","T"," ","e","n","d","p","o","i","n","t","\"","}">>)),
     \* stdout "[{\"title\": \"x\", \"description\": \"\", \"notes\": \"\"}]"
     Return(Str(<<"[","{","\"","t","i","t","l","e","\"",":"," ","\"","x","\"",","," ","\"","d","e","s","c","r","i","p","t","i","o","n","\"",":"," ","\"","\"",","," ","\"","n","o","t","e","s","\"",":"," ","\"","\"","}","]">>)),
     \* stdout "{\"title\": \"\", \"description\": \"\", \"notes\": \"EXPLICIT_HANDOFF: 5\"}"
     Return(Str(<<"{","\"","t","i","t","l","e","\"",":"," ","\"","\"",","," ","\"","d","e","s","c","r","i","p","t","i","o","n","\"",":"," ","\"","\"",","," ","\"","n","o","t","e","s","\"",":"," ","\"","E","X","P","L","I","C","I","T","_","H","A","N","D","O","F","F",":"," ","5","\"","}">>))
  >>

\* the task ids
TaskIds == {Str(<<"b","d","-","1">>), Str(<<"b","d","-","2">>)}

\* the longest list route_batch is called with
MaxBatch == 3

RECURSIVE ListsOf(_, _)
\* the lists of at most n elements of S
ListsOf(S, n) ==
  IF n = 0 THEN {<<>>}
  ELSE ListsOf(S, n - 1) \cup {Append(l, x) : l \in ListsOf(S, n - 1), x \in S}

\* the message ids of the messages the calls built
IdsBuilt(calls) ==
  SelectSeq([i \in 1..Len(calls) |->
               IF calls[i].message = Idle THEN Idle
               ELSE GetItem(calls[i].message, Str(<<"m","e","s","s","a","g","e","_","i","d">>))],
            LAMBDA id : id # Idle)

\* what bd does for the second id: no such task, a task an agent matches, a
\* task no agent matches
SecondRuns == {RunPool[2], RunPool[6], RunPool[8]}

RouterInit ==
  /\ runs \in {f \in [TaskIds -> Range(RunPool)] : f[Str(<<"b","d","-","2">>)] \in SecondRuns}
  /\ routed = Idle
  /\ batch = Idle
  /\ OrchestratorIdle
  /\ ClientIdle
  /\ ProtocolIdle

\* the calls made: the ids of the messages they built are issued
Routed(calls) ==
  /\ draws' = draws + Len(IdsBuilt(calls))
  /\ issued' = issued \o IdsBuilt(calls)
  /\ UNCHANGED <<runs, message, helper_return, orchestrator_vars, client_vars>>

RouteTask ==
  \E task_id \in TaskIds, now \in Clock :
    /\ routed = Idle
    /\ routed' = route_task(task_id, RouteLit.orchestrator, runs[task_id],
                            get_utc_timestamp(now), generate_message_id(draws))
    /\ Routed(<<routed'>>)
    /\ UNCHANGED batch

\* one call of route_batch with the calls of route_task it made
Batched(task_ids, calls) ==
  /\ batch' = [task_ids |-> task_ids, calls |-> calls,
               report |-> route_batch(task_ids, calls)]
  /\ Routed(calls)
  /\ UNCHANGED routed

RouteBatch ==
  \E task_ids \in ListsOf(TaskIds, MaxBatch), now \in Clock :
    /\ batch = Idle
    /\ Batched(task_ids, RouteEach(task_ids, runs, now, draws))

RouterNext == RouteTask \/ RouteBatch

RouterSpec == RouterInit /\ [][RouterNext]_vars

(***************************************************************************)
(* The router on a task the caller holds and bd shows under every id: the  *)
(* operations on the record, and route_task on its id.                     *)
(***************************************************************************)
\* tasks whose tags are the sentinel alone (no keyword, and notes that are
\* absent, empty, plain, or name the tag 'general'), and tasks with other tags
LookupTasks ==
  {[title |-> TitlePool[3], description |-> <<>>],
   [title |-> <<>>, description |-> <<>>, notes |-> <<>>],
   [title |-> TitlePool[3], description |-> <<>>, notes |-> NotesPool[5]],
   [title |-> TitlePool[3], description |-> <<>>, notes |-> NotesPool[12]],
   [title |-> TitlePool[2], description |-> <<>>, notes |-> NotesPool[12]],
   [title |-> TitlePool[2], description |-> <<>>, notes |-> <<>>],
   [title |-> TitlePool[4], description |-> <<>>],
   [title |-> TitlePool[6], description |-> <<>>, notes |-> NotesPool[3]]}

LookupInit ==
  /\ task_data \in LookupTasks
  /\ parsed = Idle
  /\ extracted = Idle
  /\ agent_scores = <<>>
  /\ match_log = <<>>
  /\ suggestion = Idle
  /\ runs = [id \in TaskIds |-> BdShow(task_data)]
  /\ routed = Idle
  /\ batch = Idle
  /\ ClientIdle
  /\ ProtocolIdle

LookupNext ==
  \/ ParseNotes
  \/ ExtractTags
  \/ MatchAgent
  \/ RoutingSuggestion
  \/ RouteTask

LookupSpec == LookupInit /\ [][LookupNext]_vars

(***************************************************************************)
(* Properties.                                                             *)
(***************************************************************************)
\* the agent name and the tag 'testing'
Testing == Str(<<"t","e","s","t","i","n","g">>)

\* the tags of task_data, when the extraction returns
TaskTags == extract_specialist_tags(task_data).value

\* the notes contribute no explicit tags
NoExplicitTags == ExplicitTags(task_data) = Return({})

\* no keyword of the keyword table occurs in the lower-cased title and description
NoKeyword ==
  \A i \in 1..Len(keyword_map) : \A k \in 1..Len(keyword_map[i].keywords) :
    ~Contains(TaskText(task_data), keyword_map[i].keywords[k])

Wrapping == Whitespace \cup {"\"", "'"}

AnnotationText(notes) ==
  LET body == StripChars(notes, Wrapping)
  IN StripChars(SubSeq(body, Len(HandoffMarker) + 1, Len(body)), Wrapping)

\* the notes are the marker followed by a JSON object with a specialist_tags array
HasTagArray(notes) ==
  /\ StartsAt(StripChars(notes, Wrapping), 1, HandoffMarker)
  /\ json_loads(AnnotationText(notes)).kind = "return"
  /\ json_loads(AnnotationText(notes)).value.t = "dict"
  /\ SpecialistTagsKey \in Keys(json_loads(AnnotationText(notes)).value)
  /\ GetItem(json_loads(AnnotationText(notes)).value, SpecialistTagsKey).t = "list"

\* the elements of that array
TagArray(notes) ==
  Range(GetItem(json_loads(AnnotationText(notes)).value, SpecialistTagsKey).v)

\* C2: for every task whose notes are the marker followed by a JSON object with
\* a specialist_tags array T, extract_specialist_tags returns a superset of T.
C2_ExplicitTagsKept ==
  ("notes" \in DOMAIN task_data /\ HasTagArray(task_data["notes"]) /\ extracted # Idle) =>
    /\ extracted.kind = "return"
    /\ \A tag \in TagArray(task_data["notes"]) : tag \in extracted.value

\* the notes hold the marker and what remains of them is rejected by json.loads
MalformedAnnotation ==
  /\ "notes" \in DOMAIN task_data
  /\ Contains(task_data["notes"], HandoffMarker)
  /\ json_loads(HandoffJsonStr(task_data["notes"])).kind = "raise"

\* C3: when the notes contain the marker but the remainder is not valid JSON
\* (json.loads rejects it), parse_notes_for_handoff returns None without raising
\* and extract_specialist_tags returns what it returns for the same title and
\* description with empty notes.
C3_MalformedIsAbsent ==
  ((parsed # Idle \/ extracted # Idle) /\ MalformedAnnotation) =>
    /\ parsed # Idle => parsed = Return(None)
    /\ extracted # Idle =>
         extracted = extract_specialist_tags([task_data EXCEPT !["notes"] = <<>>])

\* C3 witness: both calls made on a task with a keyword in its title and a
\* malformed annotation
C3_Witness ==
  /\ MalformedAnnotation
  /\ parsed = Return(None)
  /\ extracted.kind = "return"
  /\ extracted.value # {GeneralTag}

\* C4: extract_specialist_tags is total: for every task record it returns a
\* non-empty tag collection and never raises.
C4_ExtractTotal ==
  extracted # Idle => extracted.kind = "return" /\ extracted.value # {}

\* some agent's score reaches 3/10
SomeScoreAtFloor ==
  \E i \in 1..Len(agent_scores) : 10 * agent_scores[i].score.num >= 3 * agent_scores[i].score.den

\* agent i's score is the maximum of agent_scores
IsMaxScore(i) ==
  \A j \in 1..Len(agent_scores) :
    agent_scores[j].score.num * agent_scores[i].score.den
      <= agent_scores[i].score.num * agent_scores[j].score.den

\* C5: match_agent_to_task returns an agent if and only if the maximum score
\* over the registry is at least 3/10, the boundary included; a returned agent
\* always has the maximum score.
C5_FloorInclusive ==
  \A c \in 1..Len(match_log) :
    (match_log[c].kind = "return" /\ agent_scores # <<>>) =>
      /\ match_log[c].value # None <=> SomeScoreAtFloor
      /\ match_log[c].value # None =>
           \E i \in 1..Len(agent_scores) :
             agent_scores[i].name = match_log[c].value /\ IsMaxScore(i)

\* C5 witness: the best score is exactly 3/10 and its agent was returned
C5_Witness ==
  /\ match_log # <<>>
  /\ match_log[1] = Return(Testing)
  /\ \E i \in 1..Len(agent_scores) :
       /\ agent_scores[i].name = Testing
       /\ agent_scores[i].score = [num |-> 3, den |-> 10]
       /\ IsMaxScore(i)

\* C6: every score computed by match_agent_to_task is |intersection| / |union|
\* and lies in [0,1]; it is 0 exactly when the two sets are disjoint, and 1
\* exactly when they are equal and non-empty.
C6_JaccardScore ==
  agent_scores # <<>> =>
    LET task_tags == TaskTags
    IN \A i \in 1..Len(agent_scores) :
         LET score == agent_scores[i].score
             agent_tags == Range(agent_registry[i].specialist_tags)
         IN /\ score.den > 0 /\ 0 <= score.num /\ score.num <= score.den
            /\ score.num * Cardinality(agent_tags \cup task_tags)
                 = Cardinality(agent_tags \cap task_tags) * score.den
            /\ score.num = 0 <=> agent_tags \cap task_tags = {}
            /\ score.num = score.den <=> (agent_tags = task_tags /\ agent_tags # {})

\* C6 witness: scores 1, 0 and one strictly between, computed in one call
C6_Witness ==
  /\ \E i \in 1..Len(agent_scores) : agent_scores[i].score.num = agent_scores[i].score.den
  /\ \E i \in 1..Len(agent_scores) : agent_scores[i].score.num = 0
  /\ match_log # <<>>

\* C7: for a fixed registry and task every call of match_agent_to_task returns
\* the same agent, and of several agents with the maximum score the first in
\* registry insertion order is returned.
C7_FirstOfTies ==
  /\ \A c, d \in 1..Len(match_log) : match_log[c] = match_log[d]
  /\ \A c \in 1..Len(match_log) :
       (match_log[c].kind = "return" /\ match_log[c].value # None) =>
         \E i \in 1..Len(agent_scores) :
           /\ agent_scores[i].name = match_log[c].value
           /\ IsMaxScore(i)
           /\ \A j \in 1..(i - 1) : ~IsMaxScore(j)

\* C7 witness: two calls, with two agents sharing the maximum score
C7_Witness ==
  /\ Len(match_log) = 2
  /\ match_log[2].kind = "return" /\ match_log[2].value # None
  /\ \E i, j \in 1..Len(agent_scores) : i # j /\ IsMaxScore(i) /\ IsMaxScore(j)

\* the task {title: "Write pytest tests for JWT endpoint", description: "", notes: ""}
PytestTask == [title |-> TitlePool[6], description |-> <<>>, notes |-> <<>>]

\* the score agent_scores holds for the agent of that name reaches 3/10
ScoreAtFloor(agent_name) ==
  \E i \in 1..Len(agent_scores) :
    /\ agent_scores[i].name = agent_name
    /\ 10 * agent_scores[i].score.num >= 3 * agent_scores[i].score.den

\* C8: against the default registry the pytest task is matched to the agent
\* 'testing' with a score of at least 3/10, and so is every task whose only
\* detected tag is 'testing'.
C8_PytestTaskToTesting ==
  match_log # <<>> =>
    /\ task_data = PytestTask => match_log[1] = Return(Testing) /\ ScoreAtFloor(Testing)
    /\ (extracted.kind = "return" /\ extracted.value = {Testing}) =>
         match_log[1] = Return(Testing) /\ ScoreAtFloor(Testing)

\* C8 witness: the pytest task extracted and matched
C8_Witness ==
  /\ task_data = PytestTask
  /\ extracted = Return({Testing})
  /\ match_log # <<>> /\ match_log[1] = Return(Testing)

\* confidence, in tenths of a percent, is overlap / total * 100 rounded to one
\* decimal place: within half a tenth of the exact quotient
IsRoundedPercent(confidence, overlap, total) ==
  LET diff == confidence * total - 1000 * overlap
  IN 2 * (IF diff < 0 THEN -diff ELSE diff) <= total

\* C9: the suggested_agent of get_routing_suggestion is the result of
\* match_agent_to_task, its confidence that agent's score times 100 rounded to
\* one decimal place; when no agent is matched it is None with confidence 0.
C9_SuggestionIsMatch ==
  suggestion.kind = "return" =>
    /\ suggestion.value.suggested_agent = match_agent_to_task(task_data).value
    /\ \A c \in 1..Len(match_log) : match_log[c].value = suggestion.value.suggested_agent
    /\ suggestion.value.suggested_agent = None => suggestion.value.confidence = 0
    /\ \A i \in 1..Len(agent_registry) :
         agent_registry[i].name = suggestion.value.suggested_agent =>
           IsRoundedPercent(suggestion.value.confidence,
             Cardinality(Range(agent_registry[i].specialist_tags)
                           \cap suggestion.value.specialist_tags),
             Cardinality(Range(agent_registry[i].specialist_tags)
                           \cup suggestion.value.specialist_tags))
    /\ suggestion.value.specialist_tags = TaskTags

\* C9 witness: a suggestion of the agent 'testing' at 66.7 percent, after a
\* call of match_agent_to_task
C9_Witness ==
  /\ suggestion.kind = "return"
  /\ suggestion.value.suggested_agent = Testing
  /\ suggestion.value.confidence = 667
  /\ match_log # <<>>

\* C10: every tag extract_specialist_tags returns is a lowercase string.
C10_TagsLowercase ==
  extracted.kind = "return" =>
    \A tag \in extracted.value : tag.t = "str" /\ Lower(tag.v) = tag.v

\* ---------------------------------------------------------------------------
\* The response normalizer and the transport wrappers.

\* the response the transport returns, when it returns one
Response == transport.value

\* content is absent from the response, or an array of objects whose text, if
\* any, is a string
ContentWellFormed(response) ==
  ClientLit.content \in Keys(response) =>
    /\ GetItem(response, ClientLit.content).t = "list"
    /\ \A i \in 1..Len(GetItem(response, ClientLit.content).v) :
         /\ GetItem(response, ClientLit.content).v[i].t = "dict"
         /\ DictGet(GetItem(response, ClientLit.content).v[i], ClientLit.text, Str(<<>>)).t = "str"

\* the response has a non-empty content array whose first element has type "text"
HasTextElement(response) ==
  /\ ClientLit.content \in Keys(response)
  /\ GetItem(response, ClientLit.content).t = "list"
  /\ Len(GetItem(response, ClientLit.content).v) > 0
  /\ GetItem(response, ClientLit.content).v[1].t = "dict"
  /\ DictGet(GetItem(response, ClientLit.content).v[1], ClientLit.type, None) = ClientLit.text_type

\* the text of that element, "" when it has none
FirstText(response) == DictGet(GetItem(response, ClientLit.content).v[1], ClientLit.text, Str(<<>>))

\* the embedded-error rule fires: the text contains "Error", or "not found"
\* in any case
ErrorEmbedded(response) ==
  /\ HasTextElement(response)
  /\ FirstText(response).t = "str"
  /\ \/ Contains(FirstText(response).v, ClientLit.Error)
     \/ Contains(Lower(FirstText(response).v), ClientLit.not_found)

\* C11: whenever the response has a non-empty content array whose first element
\* has type "text" and whose text contains "Error" or, in any case, "not found",
\* normalization fails with that text as its message, whatever structuredContent
\* or result the response also has; {"content":[{"type":"text","text":"Agent not
\* found"}]} fails with "Agent not found".
C11_EmbeddedErrorFirst ==
  (transport.kind = "return" /\ normalized # Idle) =>
    /\ (Response.t = "dict" /\ ErrorEmbedded(Response)) =>
         normalized = RaiseWith("Exception", FirstText(Response))
    /\ Response = ResponsePool[1] =>
         normalized = RaiseWith("Exception", Str(<<"A","g","e","n","t"," ","n","o","t"," ","f","o","u","n","d">>))

\* C11 witness: a response with an error text, structuredContent and result,
\* normalized
C11_Witness ==
  /\ transport.kind = "return" /\ Response.t = "dict"
  /\ ErrorEmbedded(Response)
  /\ ClientLit.structuredContent \in Keys(Response) /\ ClientLit.result \in Keys(Response)
  /\ normalized.kind = "raise"

\* the wrapped shape: result and content, no structuredContent, a first text
\* element whose text does not trigger the embedded-error rule
WrappedShape(response) ==
  /\ response.t = "dict"
  /\ ClientLit.result \in Keys(response) /\ ClientLit.structuredContent \notin Keys(response)
  /\ HasTextElement(response)
  /\ ClientLit.text \in Keys(GetItem(response, ClientLit.content).v[1])
  /\ FirstText(response).t = "str"
  /\ ~ErrorEmbedded(response)

\* C12: for a response with result and content, no structuredContent, and a
\* first text element whose text does not trigger the embedded-error rule, the
\* normalizer returns the value parsed from the text when it is valid JSON, and
\* the whole raw response when it is not.
C12_WrappedResultParsed ==
  (transport.kind = "return" /\ normalized # Idle) =>
    /\ WrappedShape(Response) =>
         normalized = IF json_loads(FirstText(Response).v).kind = "return"
                        THEN json_loads(FirstText(Response).v)
                        ELSE Return(Response)
    /\ Response = ResponsePool[4] =>
         normalized = Return(DictV(<< <<Str(<<"o","k">>), BoolV(TRUE)>> >>))

\* C12 witness: a wrapped response normalized to the parsed text, which is
\* neither the envelope nor its result
C12_Witness ==
  /\ transport.kind = "return" /\ WrappedShape(Response)
  /\ normalized.kind = "return"
  /\ normalized.value # Response
  /\ normalized.value # GetItem(Response, ClientLit.result)

ToolsCallShape(response) ==
  /\ response.t = "dict"
  /\ ClientLit.result \in Keys(response)
  /\ Keys(response) \subseteq {ClientLit.result, Str(<<"i","s","E","r","r","o","r">>)}
  /\ GetItem(response, ClientLit.result).t = "dict"
  /\ HasTextElement(GetItem(response, ClientLit.result))
  /\ FirstText(GetItem(response, ClientLit.result)).t = "str"

\* C15: for a tools/call-wrapped response {"result": {"content": [{"type":
\* "text", "text": <JSON text>}], "isError": false}} the normalizer returns the
\* result parsed from content[0].text.
C15_ToolsCallUnwrapped ==
  ( /\ transport.kind = "return" /\ normalized # Idle
    /\ ToolsCallShape(Response)
    /\ json_loads(FirstText(GetItem(Response, ClientLit.result)).v).kind = "return" ) =>
    normalized = json_loads(FirstText(GetItem(Response, ClientLit.result)).v)

\* the last call was of one of the six transport wrappers
WrapperCall ==
  /\ last_call # Idle
  /\ last_call.name \in {"register_agent", "send_message", "fetch_inbox",
                         "acknowledge_message", "reserve_file_paths",
                         "release_file_reservations"}

\* C16: a transport wrapper never propagates an exception; when it reached the
\* transport it returns {success: True, response: <the normalized response>} if
\* call and normalization succeed, {success: False, error: <message>} if the
\* transport raises or the normalizer fails, the error being the embedded text
\* when the normalizer detected one.
C16_WrapperResult ==
  WrapperCall =>
    /\ last_call.outcome.kind = "return"
    /\ last_call.calls # <<>> =>
         /\ transport.kind = "raise" =>
              last_call.outcome.value = [success |-> FALSE, error |-> transport.arg]
         /\ (transport.kind = "return"
               /\ _extract_structured_content(Response).kind = "return") =>
              last_call.outcome.value =
                [success |-> TRUE,
                 response |-> _extract_structured_content(Response).value]
         /\ (transport.kind = "return"
               /\ _extract_structured_content(Response).kind = "raise") =>
              ~last_call.outcome.value.success
         /\ (transport.kind = "return" /\ Response.t = "dict"
               /\ ErrorEmbedded(Response)) =>
              last_call.outcome.value = [success |-> FALSE, error |-> FirstText(Response)]

\* C16 witness: a wrapper that reached the transport and met an embedded error
C16_Witness ==
  /\ WrapperCall
  /\ last_call.calls # <<>>
  /\ transport.kind = "return" /\ Response.t = "dict" /\ ErrorEmbedded(Response)
  /\ last_call.outcome.kind = "return"
  /\ ~last_call.outcome.value.success

\* the last call ended in failure: a failure result of a wrapper, a
\* RuntimeError of Orchestrator.delegate_task
EndedInFailure ==
  IF WrapperCall
    THEN last_call.outcome.kind = "return" /\ ~last_call.outcome.value.success
    ELSE last_call.outcome.kind = "raise" /\ last_call.outcome.exc = "RuntimeError"

\* C17 (as stated): each call of a transport wrapper invokes the transport
\* exactly once, a transport failure ends the call with a failure result, and
\* Orchestrator.delegate_task sends at most one message per call.
C17_ExactlyOneCall ==
  last_call # Idle =>
    /\ WrapperCall => Len(last_call.calls) = 1
    /\ Len(last_call.calls) <= 1
    /\ transport.kind = "raise" => EndedInFailure

\* C17 (amended): each call of a transport wrapper, and of
\* Orchestrator.delegate_task, invokes the transport at most once: exactly once
\* when the arguments of the call could be built, not at all when building them
\* raised, which only the content given to send_message can cause; a transport
\* failure ends the call with a failure result.
C17_AtMostOneCall ==
  last_call # Idle =>
    /\ Len(last_call.calls) = IF last_call.arguments.kind = "return" THEN 1 ELSE 0
    /\ last_call.arguments.kind = "raise" =>
         last_call.name \in {"send_message", "Orchestrator.delegate_task"}
    /\ call_count <= MaxToolCalls
    /\ transport.kind = "raise" => EndedInFailure

\* C17 witness: a wrapper call that reached a failing transport once and
\* returned a failure result
C17_Witness ==
  /\ WrapperCall
  /\ transport.kind = "raise"
  /\ Len(last_call.calls) = 1
  /\ call_count = 1
  /\ EndedInFailure

\* the sender a call names: sender_id for a constructor, orchestrator_name for
\* delegate_task, agent_name for the two report helpers
SenderSupplied ==
  CASE message.by = "delegate_task" -> message.arguments.orchestrator_name
    [] message.by \in {"report_task_completion", "report_error"} ->
         message.arguments.agent_name
    [] OTHER -> message.arguments.sender_id

\* the message type of the constructor that built the envelope
OwnType ==
  CASE message.constructor = "create_task_assignment_message" -> MESSAGE.task_assignment
    [] message.constructor = "create_task_completion_message" -> MESSAGE.task_completion
    [] message.constructor = "create_error_report_message" -> MESSAGE.error_report
    [] message.constructor = "create_status_update_message" -> MESSAGE.status_update

\* C18: every envelope built by one of the four constructors carries version
\* "1.0.0", a timestamp, the sender_id the caller supplied, a message_id, and
\* the message type of the constructor that built it.
C18_BaseEnvelope ==
  message # Idle =>
    /\ {Str(<<"v","e","r","s","i","o","n">>), Str(<<"t","i","m","e","s","t","a","m","p">>), Str(<<"s","e","n","d","e","r","_","i","d">>), Str(<<"m","e","s","s","a","g","e","_","i","d">>), Str(<<"t","y","p","e">>)}
         \subseteq Keys(message.envelope)
    /\ GetItem(message.envelope, Str(<<"v","e","r","s","i","o","n">>)) = Str(<<"1",".","0",".","0">>)
    /\ GetItem(message.envelope, Str(<<"t","i","m","e","s","t","a","m","p">>)).t = "str"
    /\ GetItem(message.envelope, Str(<<"m","e","s","s","a","g","e","_","i","d">>)).t = "str"
    /\ GetItem(message.envelope, Str(<<"s","e","n","d","e","r","_","i","d">>)) = SenderSupplied
    /\ GetItem(message.envelope, Str(<<"t","y","p","e">>)) = OwnType

\* C18 witness: an error report built by its constructor after a status update
\* or another envelope, its type error_report
C18_Witness ==
  /\ message # Idle
  /\ message.by = "create_error_report_message"
  /\ Len(issued) = 2
  /\ GetItem(message.envelope, Str(<<"t","y","p","e">>)) = Str(<<"e","r","r","o","r","_","r","e","p","o","r","t">>)
  /\ GetItem(message.envelope, Str(<<"s","e","n","d","e","r","_","i","d">>)) = Str(<<"f","r","o","n","t","e","n","d","-","d","e","v">>)

\* C19: after any sequence of constructions, by the constructors and by the
\* helpers, the message ids issued so far are pairwise distinct, and a helper
\* that built an envelope returns (True, the message_id of that envelope); a
\* helper returns (False, None) only when it built none.
C19_UniqueMessageIds ==
  /\ \A i, j \in 1..Len(issued) : i # j => issued[i] # issued[j]
  /\ message # Idle =>
       /\ Len(issued) > 0
       /\ GetItem(message.envelope, Str(<<"m","e","s","s","a","g","e","_","i","d">>)) = issued[Len(issued)]
  /\ helper_return # Idle =>
       IF helper_return.built
         THEN /\ message.by = helper_return.helper
              /\ helper_return.result =
                   <<TRUE, GetItem(message.envelope, Str(<<"m","e","s","s","a","g","e","_","i","d">>))>>
       ELSE helper_return.result = <<FALSE, None>>

\* C19 witness: three envelopes issued, the last one by report_error, which
\* returned its id
C19_Witness ==
  /\ Len(issued) = MaxEnvelopes
  /\ helper_return # Idle
  /\ helper_return.helper = "report_error"
  /\ helper_return.result = <<TRUE, issued[Len(issued)]>>

\* the optional fields of a task assignment
OptionalFields ==
  {<<Str(<<"s","p","e","c","i","f","i","c","a","t","i","o","n">>), message.arguments.specification>>,
   <<Str(<<"d","e","p","e","n","d","e","n","c","i","e","s">>), message.arguments.dependencies>>,
   <<Str(<<"e","s","t","i","m","a","t","e","d","_","d","u","r","a","t","i","o","n","_","m","i","n","u","t","e","s">>), message.arguments.estimated_duration_minutes>>,
   <<Str(<<"d","e","a","d","l","i","n","e">>), message.arguments.deadline>>,
   <<Str(<<"m","e","t","a","d","a","t","a">>), message.arguments.metadata>>}

\* C20: an envelope built by create_task_assignment_message has the task_id,
\* description, file_patterns, priority and priority_value supplied; each
\* optional field is a key of it exactly when the value supplied is truthy,
\* and then has that value, so that no optional field is present as None.
C20_AssignmentRoundTrip ==
  (message # Idle /\ message.by = "create_task_assignment_message") =>
    /\ GetItem(message.envelope, Str(<<"t","a","s","k","_","i","d">>)) = message.arguments.task_id
    /\ GetItem(message.envelope, Str(<<"d","e","s","c","r","i","p","t","i","o","n">>)) = message.arguments.description
    /\ GetItem(message.envelope, Str(<<"f","i","l","e","_","p","a","t","t","e","r","n","s">>)) = message.arguments.file_patterns
    /\ GetItem(message.envelope, Str(<<"p","r","i","o","r","i","t","y">>)) = message.arguments.priority
    /\ GetItem(message.envelope, Str(<<"p","r","i","o","r","i","t","y","_","v","a","l","u","e">>)) = message.arguments.priority_value
    /\ \A f \in OptionalFields :
         /\ f[1] \in Keys(message.envelope) <=> Truthy(f[2])
         /\ f[1] \in Keys(message.envelope) =>
              /\ GetItem(message.envelope, f[1]) = f[2]
              /\ GetItem(message.envelope, f[1]) # None

\* C20 witness: an assignment built with an empty specification, an empty
\* dependency list and an estimate of 0 minutes, which its envelope omits,
\* and with a deadline and metadata, which it carries
C20_Witness ==
  /\ message # Idle
  /\ message.by = "create_task_assignment_message"
  /\ message.arguments.specification = Str(<<>>)
  /\ message.arguments.dependencies = ListV(<<>>)
  /\ message.arguments.estimated_duration_minutes = IntV(0)
  /\ message.arguments.file_patterns = ListV(<<>>)
  /\ Str(<<"d","e","a","d","l","i","n","e">>) \in Keys(message.envelope)
  /\ Str(<<"m","e","t","a","d","a","t","a">>) \in Keys(message.envelope)
  /\ Str(<<"d","e","p","e","n","d","e","n","c","i","e","s">>) \notin Keys(message.envelope)

\* the envelope has the key with the value
Has(key, value) ==
  /\ key \in Keys(message.envelope)
  /\ GetItem(message.envelope, key) = value

\* the value written for a list that defaults to the empty list
ListOrEmpty(supplied) == IF supplied = None THEN ListV(<<>>) ELSE supplied

\* the envelope was built by a direct call of the constructor
BuiltBy(constructor) == message # Idle /\ message.by = constructor

\* C21: a task_completion envelope always has task_id, status,
\* completion_summary, files_modified and errors_encountered, the last two the
\* empty list when not supplied; a status_update envelope always has task_id,
\* update_type, status_summary and blockers, the empty list when not supplied;
\* an error_report envelope always has task_id, severity,
\* needs_human_intervention and an error object with code and message, which
\* has stack_trace and context only when they were supplied.
C21_RequiredFields ==
  /\ BuiltBy("create_task_completion_message") =>
       /\ Has(Str(<<"t","a","s","k","_","i","d">>), message.arguments.task_id)
       /\ Has(Str(<<"s","t","a","t","u","s">>), message.arguments.status)
       /\ Has(Str(<<"c","o","m","p","l","e","t","i","o","n","_","s","u","m","m","a","r","y">>), message.arguments.completion_summary)
       /\ Has(Str(<<"f","i","l","e","s","_","m","o","d","i","f","i","e","d">>), ListOrEmpty(message.arguments.files_modified))
       /\ Has(Str(<<"e","r","r","o","r","s","_","e","n","c","o","u","n","t","e","r","e","d">>), ListOrEmpty(message.arguments.errors_encountered))
  /\ BuiltBy("create_status_update_message") =>
       /\ Has(Str(<<"t","a","s","k","_","i","d">>), message.arguments.task_id)
       /\ Has(Str(<<"u","p","d","a","t","e","_","t","y","p","e">>), message.arguments.update_type)
       /\ Has(Str(<<"s","t","a","t","u","s","_","s","u","m","m","a","r","y">>), message.arguments.status_summary)
       /\ Has(Str(<<"b","l","o","c","k","e","r","s">>), ListOrEmpty(message.arguments.blockers))
  /\ BuiltBy("create_error_report_message") =>
       /\ Has(Str(<<"t","a","s","k","_","i","d">>), message.arguments.task_id)
       /\ Has(Str(<<"s","e","v","e","r","i","t","y">>), message.arguments.severity)
       /\ Has(Str(<<"n","e","e","d","s","_","h","u","m","a","n","_","i","n","t","e","r","v","e","n","t","i","o","n">>), message.arguments.needs_human_intervention)
       /\ Str(<<"e","r","r","o","r">>) \in Keys(message.envelope)
       /\ LET error == GetItem(message.envelope, Str(<<"e","r","r","o","r">>))
          IN /\ error.t = "dict"
             /\ {Str(<<"c","o","d","e">>), Str(<<"m","e","s","s","a","g","e">>)} \subseteq Keys(error)
             /\ GetItem(error, Str(<<"c","o","d","e">>)) = message.arguments.error_code
             /\ GetItem(error, Str(<<"m","e","s","s","a","g","e">>)) = message.arguments.error_message
             /\ Keys(error) \subseteq {Str(<<"c","o","d","e">>), Str(<<"m","e","s","s","a","g","e">>), Str(<<"s","t","a","c","k","_","t","r","a","c","e">>), Str(<<"c","o","n","t","e","x","t">>)}
             /\ Str(<<"s","t","a","c","k","_","t","r","a","c","e">>) \in Keys(error) =>
                  /\ message.arguments.stack_trace # None
                  /\ GetItem(error, Str(<<"s","t","a","c","k","_","t","r","a","c","e">>)) = message.arguments.stack_trace
             /\ Str(<<"c","o","n","t","e","x","t">>) \in Keys(error) =>
                  /\ message.arguments.error_context # None
                  /\ GetItem(error, Str(<<"c","o","n","t","e","x","t">>)) = message.arguments.error_context
  /\ (message # Idle /\ message.constructor = "create_task_completion_message") =>
       {Str(<<"t","a","s","k","_","i","d">>), Str(<<"s","t","a","t","u","s">>), Str(<<"c","o","m","p","l","e","t","i","o","n","_","s","u","m","m","a","r","y">>), Str(<<"f","i","l","e","s","_","m","o","d","i","f","i","e","d">>),
        Str(<<"e","r","r","o","r","s","_","e","n","c","o","u","n","t","e","r","e","d">>)} \subseteq Keys(message.envelope)
  /\ (message # Idle /\ message.constructor = "create_error_report_message") =>
       {Str(<<"t","a","s","k","_","i","d">>), Str(<<"s","e","v","e","r","i","t","y">>), Str(<<"n","e","e","d","s","_","h","u","m","a","n","_","i","n","t","e","r","v","e","n","t","i","o","n">>), Str(<<"e","r","r","o","r">>)}
         \subseteq Keys(message.envelope)

\* C21 witness: a completion built with no files_modified and with errors,
\* whose envelope has the empty list for the former
C21_Witness ==
  /\ BuiltBy("create_task_completion_message")
  /\ message.arguments.files_modified = None
  /\ message.arguments.errors_encountered # None
  /\ GetItem(message.envelope, Str(<<"f","i","l","e","s","_","m","o","d","i","f","i","e","d">>)) = ListV(<<>>)

\* the reference rule of keyword tagging: the keyword occurs at some position of
\* the title, a space and the description, letter case of the text aside
Occurs(keyword, title, description) ==
  LET text == title \o <<" ">> \o description
  IN \E at \in 1..Len(text) :
       /\ at + Len(keyword) - 1 <= Len(text)
       /\ \A j \in 1..Len(keyword) : LowerChar(text[at + j - 1]) = keyword[j]

\* the tags of the keyword table the reference rule gives a task
ReferenceTags ==
  {keyword_map[i].tag : i \in {n \in 1..Len(keyword_map) :
     \E k \in 1..Len(keyword_map[n].keywords) :
       Occurs(keyword_map[n].keywords[k], TaskGet(task_data, "title"),
              TaskGet(task_data, "description"))}}

\* the tags of the keyword table
TableTags == {keyword_map[i].tag : i \in 1..Len(keyword_map)}

\* C27: a tag of the keyword table that the reference rule gives a task (some
\* keyword of the tag is a substring of the lower-cased title and description,
\* at a word boundary or not) is in the result of extract_specialist_tags, and
\* when the notes contribute no tags the table tags of the result are exactly
\* those; a keyword of two tags adds both: "UI" gives frontend and figma,
\* "validate tests" gives testing and validation.
C27_KeywordTagging ==
  extracted.kind = "return" =>
    /\ ReferenceTags \subseteq extracted.value
    /\ NoExplicitTags =>
         /\ extracted.value \cap TableTags = ReferenceTags
         /\ (TaskGet(task_data, "title") = <<"U","I">>
               /\ TaskGet(task_data, "description") = <<>>) =>
              extracted.value = {Str(<<"f","r","o","n","t","e","n","d">>), Str(<<"f","i","g","m","a">>)}
         /\ (TaskGet(task_data, "title") = TitlePool[5]
               /\ TaskGet(task_data, "description") = <<>>) =>
              extracted.value = {Str(<<"t","e","s","t","i","n","g">>), Str(<<"v","a","l","i","d","a","t","i","o","n">>)}
         /\ (TaskGet(task_data, "title") = <<>>
               /\ TaskGet(task_data, "description") = DescriptionPool[2]) =>
              extracted.value = {Str(<<"d","o","c","u","m","e","n","t","a","t","i","o","n">>), Str(<<"f","r","o","n","t","e","n","d">>), Str(<<"f","i","g","m","a">>)}

\* C27 witness: the title "UI", in capitals, tagged frontend and figma by the
\* keyword the two tags share
C27_Witness ==
  /\ task_data = [title |-> <<"U","I">>, description |-> <<>>]
  /\ extracted = Return({Str(<<"f","r","o","n","t","e","n","d">>), Str(<<"f","i","g","m","a">>)})

\* the names of the agents of the registry
RegistryNames == {agent_registry[i].name : i \in 1..Len(agent_registry)}

\* the ids route_batch called route_task with, in the order of the calls
Attempted == [i \in 1..Len(batch.calls) |-> batch.calls[i].task_id]

\* the i-th call of the batch ended in success
Succeeded(i) ==
  /\ batch.calls[i].result.kind = "return"
  /\ batch.calls[i].result.value[1]

\* C22: route_batch calls route_task once for every element of its input, in
\* input order, also after calls that failed; no call raises, and the report
\* has total_tasks the length of the input and successful_routes and
\* failed_routes the numbers of the calls that succeeded and that failed, so
\* that the two add up to total_tasks.
C22_BatchAttemptsAll ==
  batch # Idle =>
    /\ Attempted = batch.task_ids
    /\ \A i \in 1..Len(batch.calls) : batch.calls[i].result.kind = "return"
    /\ batch.report.kind = "return"
    /\ batch.report.value.total_tasks = Len(batch.task_ids)
    /\ batch.report.value.successful_routes =
         Cardinality({i \in 1..Len(batch.calls) : Succeeded(i)})
    /\ batch.report.value.failed_routes =
         Cardinality({i \in 1..Len(batch.calls) : ~Succeeded(i)})
    /\ batch.report.value.successful_routes + batch.report.value.failed_routes
         = batch.report.value.total_tasks

\* C22 witness: a batch of three whose first call failed on the lookup and
\* whose last call routed its task
C22_Witness ==
  /\ batch # Idle
  /\ Len(batch.task_ids) = MaxBatch
  /\ runs[batch.task_ids[1]].kind = "raise"
  /\ ~Succeeded(1)
  /\ Succeeded(MaxBatch)
  /\ batch.report.value.failed_routes >= 1
  /\ batch.report.value.successful_routes >= 1

\* no agent of the registry scores 3/10 or more on the tags
BelowFloor(tags) ==
  \A i \in 1..Len(agent_registry) :
    LET agent_tags == Range(agent_registry[i].specialist_tags)
    IN 10 * Cardinality(agent_tags \cap tags) < 3 * Cardinality(agent_tags \cup tags)

\* the text is an error message of route_task for the task
IsRoutingError(text, task_id) ==
  /\ "prefix" \in DOMAIN text
  /\ text.prefix = RouteLit.error_routing \o task_id.v \o RouteLit.colon

\* C23: route_task never raises.  When no agent reaches the floor of 0.3 on the
\* tags of the task it returns (False, "No suitable agent found for task <id>",
\* None); when the lookup, the decoding or the extraction fails it returns
\* (False, "Error routing task <id>: <error>", None); and it returns success
\* True only with an agent of the registry.
C23_RouteTaskTotal ==
  routed # Idle =>
    /\ routed.result.kind = "return"
    /\ (routed.specialist_tags # Idle /\ routed.specialist_tags.kind = "return"
          /\ BelowFloor(routed.specialist_tags.value)) =>
         routed.result.value =
           <<FALSE, Str(RouteLit.no_agent \o routed.task_id.v), None>>
    /\ (routed.specialist_tags = Idle \/ routed.specialist_tags.kind = "raise") =>
         /\ routed.result.value[1] = FALSE
         /\ IsRoutingError(routed.result.value[2], routed.task_id)
         /\ routed.result.value[3] = None
    /\ routed.result.value[1] =>
         /\ routed.result.value[3] \in RegistryNames
         /\ ~BelowFloor(routed.specialist_tags.value)

\* C23 witness: a task that bd does not know, reported as a routing error
C23_Witness ==
  /\ routed # Idle
  /\ runs[routed.task_id] = Raise("CalledProcessError")
  /\ routed.result.kind = "return"
  /\ routed.result.value[1] = FALSE
  /\ IsRoutingError(routed.result.value[2], routed.task_id)

\* the ids of the input that a call routed, and those a call failed on
RoutedIds == {batch.calls[i].task_id : i \in {j \in 1..Len(batch.calls) : Succeeded(j)}}

FailedIds == {batch.report.value.errors[i].task_id : i \in 1..Len(batch.report.value.errors)}

\* C29 (as stated): in the report of route_batch, for every input list,
\* repeated ids included, successful_routes is the number of entries of
\* assignments, failed_routes the number of entries of errors, and every input
\* id is a key of assignments or the task_id of an entry of errors.
C29_ReportCounts ==
  (batch # Idle /\ batch.report.kind = "return") =>
    /\ batch.report.value.successful_routes = Len(batch.report.value.assignments.v)
    /\ batch.report.value.failed_routes = Len(batch.report.value.errors)
    /\ \A i \in 1..Len(batch.task_ids) :
         batch.task_ids[i] \in Keys(batch.report.value.assignments) \cup FailedIds

\* C29 (amended): failed_routes is the number of entries of errors, every input
\* id is a key of assignments or the task_id of an entry of errors, and
\* assignments has one entry for every distinct id that was routed:
\* successful_routes, which counts the calls that succeeded, is the number of
\* its entries when no routed id is repeated in the input, and larger otherwise.
C29_ReportCountsDistinct ==
  (batch # Idle /\ batch.report.kind = "return") =>
    /\ batch.report.value.failed_routes = Len(batch.report.value.errors)
    /\ \A i \in 1..Len(batch.task_ids) :
         batch.task_ids[i] \in Keys(batch.report.value.assignments) \cup FailedIds
    /\ Keys(batch.report.value.assignments) = RoutedIds
    /\ Len(batch.report.value.assignments.v) = Cardinality(RoutedIds)
    /\ batch.report.value.successful_routes >= Len(batch.report.value.assignments.v)
    /\ (\A i, j \in 1..Len(batch.calls) :
          (Succeeded(i) /\ Succeeded(j) /\ i # j) => batch.task_ids[i] # batch.task_ids[j])
         <=> batch.report.value.successful_routes = Len(batch.report.value.assignments.v)

\* C29 witness: a batch that routed the same id twice and failed on another
C29_Witness ==
  /\ batch # Idle
  /\ Len(batch.task_ids) = 3
  /\ batch.task_ids[1] = batch.task_ids[3]
  /\ batch.task_ids[1] # batch.task_ids[2]
  /\ Succeeded(1) /\ ~Succeeded(2) /\ Succeeded(3)
  /\ batch.report.value.successful_routes = 2
  /\ Len(batch.report.value.assignments.v) = 1

\* C30: against the default registry, a task whose extracted tags are the
\* sentinel {"general"} alone is never routed: every agent scores 0,
\* match_agent_to_task returns None, get_routing_suggestion reports
\* suggested_agent None with confidence 0, and route_task on the id under which
\* bd shows the task returns the unrouted outcome.
C30_GeneralNeverRouted ==
  (extracted # Idle /\ extracted = Return({GeneralTag})) =>
    /\ \A i \in 1..Len(agent_scores) : agent_scores[i].score.num = 0
    /\ \A i \in 1..Len(match_log) : match_log[i] = Return(None)
    /\ suggestion # Idle =>
         /\ suggestion.kind = "return"
         /\ suggestion.value.suggested_agent = None
         /\ suggestion.value.confidence = 0
    /\ routed # Idle =>
         /\ routed.specialist_tags = extracted
         /\ routed.assigned_agent = Return(None)
         /\ routed.message = Idle
         /\ routed.result = Return(<<FALSE, Str(RouteLit.no_agent \o routed.task_id.v), None>>)

\* a task with explicit tags ["general"] and no keyword went through the four
\* operations
C30_Witness ==
  /\ task_data = [title |-> TitlePool[3], description |-> <<>>, notes |-> NotesPool[12]]
  /\ extracted # Idle
  /\ extracted = Return({GeneralTag})
  /\ Len(agent_scores) = Len(agent_registry)
  /\ Len(match_log) = MaxCalls
  /\ suggestion # Idle
  /\ routed # Idle

\* the mapping 0=urgent, 1=high, 2=normal, 3=low
PriorityNames == <<Str(<<"u","r","g","e","n","t">>), Str(<<"h","i","g","h">>), Str(<<"n","o","r","m","a","l">>), Str(<<"l","o","w">>)>>

\* priority is the name of priority_value
PriorityConsistent(content) ==
  LET priority_value == GetItem(content, Str(<<"p","r","i","o","r","i","t","y","_","v","a","l","u","e">>))
  IN /\ priority_value.t = "int"
     /\ priority_value.v \in 0..3
     /\ GetItem(content, Str(<<"p","r","i","o","r","i","t","y">>)) = PriorityNames[priority_value.v + 1]

\* C26: in every task_assignment message built by Orchestrator.delegate_task
\* (priority 0..3), by the helper delegate_task of handoff_protocol, and by
\* EnhancedOrchestrator.route_task, priority is the name of priority_value
\* under 0=urgent, 1=high, 2=normal, 3=low.
C26_PriorityConsistent ==
  /\ (last_call # Idle /\ last_call.name = "Orchestrator.delegate_task"
        /\ last_call.arguments.kind = "return") =>
       PriorityConsistent(GetItem(last_call.arguments.value, Str(<<"b","o","d","y","_","m","d">>)).dumps_of)
  /\ (message # Idle /\ message.by = "delegate_task") =>
       PriorityConsistent(message.envelope)
  /\ (routed # Idle /\ routed.message # Idle) =>
       PriorityConsistent(routed.message)

\* the dict without the key isError
WithoutIsError(d) == DictV(SelectSeq(d.v, LAMBDA member : member[1] # Str(<<"i","s","E","r","r","o","r">>)))

\* the ways the field isError can stand in a dict
Flags == {"absent", "true", "false"}

\* the value with isError absent, true or false, when it is a dict
Flagged(x, flag) ==
  IF x.t # "dict" THEN x
  ELSE IF flag = "absent" THEN WithoutIsError(x)
  ELSE DictV(Append(WithoutIsError(x).v, <<Str(<<"i","s","E","r","r","o","r">>), BoolV(flag = "true")>>))

\* the value with isError absent, true or false inside its result
FlaggedResult(x, flag) ==
  IF x.t = "dict" /\ ClientLit.result \in Keys(x)
    THEN SetItem(x, ClientLit.result, Flagged(GetItem(x, ClientLit.result), flag))
    ELSE x

\* the responses that differ from the response at most in isError, at top
\* level or inside result
Variants(response) ==
  {FlaggedResult(Flagged(response, top), inner) : top \in Flags, inner \in Flags}

\* the outcome apart from isError inside a returned value
ApartFromIsError(outcome) ==
  IF outcome.kind = "return"
    THEN Return(FlaggedResult(Flagged(outcome.value, "absent"), "absent"))
    ELSE outcome

\* C28: the outcome of _extract_structured_content does not depend on isError:
\* every response that differs from the normalized one only in the presence or
\* the value of isError, at top level or inside result, fails with the same
\* error or returns the same value, apart from isError inside that value.
C28_IsErrorIgnored ==
  normalized # Idle =>
    \A variant \in Variants(transport.value) :
      ApartFromIsError(_extract_structured_content(variant)) = ApartFromIsError(normalized)

\* a response flagged isError: true was normalized to a value, and so is the
\* response without the flag
C28_Witness ==
  /\ normalized # Idle
  /\ normalized.kind = "return"
  /\ transport.value.t = "dict"
  /\ DictGet(transport.value, Str(<<"i","s","E","r","r","o","r">>), None) = BoolV(TRUE)
  /\ WithoutIsError(transport.value) \in Variants(transport.value)
  /\ WithoutIsError(transport.value) # transport.value

\* what register_agent reports for the answer of the transport is a failure
RegistrationFails ==
  \/ transport.kind = "raise"
  \/ _extract_structured_content(transport.value).kind = "raise"

AssignmentFields ==
  {Str(<<"v","e","r","s","i","o","n">>), Str(<<"t","i","m","e","s","t","a","m","p">>), Str(<<"s","e","n","d","e","r","_","i","d">>), Str(<<"m","e","s","s","a","g","e","_","i","d">>), Str(<<"t","y","p","e">>), Str(<<"t","a","s","k","_","i","d">>), Str(<<"d","e","s","c","r","i","p","t","i","o","n">>),
   Str(<<"f","i","l","e","_","p","a","t","t","e","r","n","s">>), Str(<<"p","r","i","o","r","i","t","y">>), Str(<<"p","r","i","o","r","i","t","y","_","v","a","l","u","e">>)}

\* the envelope is a task assignment of the protocol version, with its fields
ValidAssignment(envelope) ==
  /\ AssignmentFields \subseteq Keys(envelope)
  /\ GetItem(envelope, Str(<<"v","e","r","s","i","o","n">>)) = MESSAGE.VERSION
  /\ GetItem(envelope, Str(<<"t","y","p","e">>)) = MESSAGE.task_assignment
  /\ GetItem(envelope, Str(<<"f","i","l","e","_","p","a","t","t","e","r","n","s">>)).t = "list"

\* C24: a received envelope with an unrecognized type or version, or without a
\* required field, is rejected by the receiver and never handled as a valid
\* message: process_task does not return success for it.
C24_InvalidRejected ==
  (message # Idle /\ message.by = "ImplementationAgent.process_task"
     /\ ~ValidAssignment(message.received)) =>
    ~message.returned[1]

====
